---- MODULE Spec2Model ----
(***************************************************************************)
(* Model of the iam server's credential-ceremony orchestration and         *)
(* session-lifecycle engine (server/src/api/v1/auth.rs, extractors.rs and  *)
(* the DatabaseClient store).  Every request handler is a sequence of      *)
(* steps, one per store call that reads or writes mutable rows (the        *)
(* handler's await points); requests of different processes interleave     *)
(* between steps.  A store write may fail (DatabaseError::Other).          *)
(***************************************************************************)
EXTENDS Integers, Sequences, FiniteSets, TLC

(* ------------------------------ bounds -------------------------------- *)
\* concurrent request slots
NProcs == 2
\* requests the server accepts in one run
MaxRequests == 3
\* session rows the store may hold (two exist when the store is opened)
MaxSessions == 5
\* registration and authentication ceremonies that may be started
MaxRegs == 1
MaxAuths == 1
\* clock resolution: ticks per second (the store keeps whole seconds)
TicksPerSec == 2
\* how far the clock may advance in sub-second ticks, TTL jumps and day jumps
MaxSubTicks == 2
MaxTtlJumps == 1
MaxDayJumps == 1

(* ------------------------- program constants -------------------------- *)
\* const SESSION_DURATION: chrono::Duration = chrono::Duration::days(1)
SESSION_DURATION_SECS == 86400
\* chrono::Duration::minutes(5) in finish_registration and finish_authentication
CEREMONY_TTL_SECS == 300

SESSION_DURATION == SESSION_DURATION_SECS * TicksPerSec
CEREMONY_TTL == CEREMONY_TTL_SECS * TicksPerSec

Procs == 1..NProcs

VARIABLES
    now,        \* chrono::Utc::now(), in ticks
    users,      \* users table: rows [id, email, reg]; reg names the
                \* registration ceremony whose finish inserted the row
    tags,       \* users_tags: the user ids holding the "iam::admin" tag
    passkeys,   \* passkeys table: credential id -> [user_id, counter, display_name]
    regs,       \* passkey_registrations table, in creation order
    auths,      \* passkey_authentications table, in creation order
    sessions,   \* sessions table: id_hash -> Session row
    nextTok,    \* the next 256-bit value rand::rng() hands out
    issued,     \* session_id cookie values delivered to clients so far
    nreq,       \* requests accepted so far
    pc,         \* per request slot: the handler step it is suspended at
    loc         \* per request slot: the handler's local variables

vars == <<now, users, tags, passkeys, regs, auths, sessions, nextTok, issued,
          nreq, pc, loc>>

(* ------------------------------ values -------------------------------- *)
NoHash == 0
\* blake3::hash: one-way and (collisions excluded) injective; its image is
\* kept apart from the values the random generator draws
Blake3(id) == id + MaxSessions
\* a 256-bit value that is neither a drawn id nor the hash of one
NeverMinted == 2 * MaxSessions + 1

\* Hash::to_string(): the hex text of the 32 bytes
ToHex(h) == [kind |-> "hex", v |-> h]
NoCookie == [kind |-> "none", v |-> 0]
BadCookie == [kind |-> "bad", v |-> 0]
\* blake3::Hash::from_hex: the 32 bytes of a well-formed hex text
FromHex(c) == IF c.kind = "hex" THEN c.v ELSE NoHash

\* DateTime::timestamp(): whole seconds, the precision the store keeps
Timestamp(t) == (t \div TicksPerSec) * TicksPerSec

NoSession ==
    [id_hash |-> NoHash, user_id |-> 0, state |-> "None", created_at |-> 0,
     expires_at |-> 0, is_admin |-> FALSE, parent_id_hash |-> NoHash]

\* SessionUpdate::new(), with_state, with_expires_at, is_empty: each field is
\* an Option, modelled as a flag and a value
SessionUpdateNew ==
    [has_state |-> FALSE, state |-> "None",
     has_expires_at |-> FALSE, expires_at |-> 0]
WithState(upd, st) == [upd EXCEPT !.has_state = TRUE, !.state = st]
WithExpiresAt(upd, t) ==
    [upd EXCEPT !.has_expires_at = TRUE, !.expires_at = t]
SessionUpdateIsEmptyStateOnly(upd) == ~upd.has_state
SessionUpdateIsEmpty(upd) == ~upd.has_state /\ ~upd.has_expires_at

\* a client's WebAuthn response: the user handle and credential id it names,
\* whether the library's verification of it succeeds, and whether the
\* verified result reports needs_update()
NoReq == [user |-> 0, cred |-> 0, ok |-> FALSE, upd |-> FALSE]

NoLoc ==
    [op |-> "none", cookie |-> NoCookie, session |-> NoSession,
     parent |-> NoSession, new |-> NoHash, err |-> "none", cause |-> "none",
     h |-> 0, email |-> "none", user_id |-> 0, req |-> NoReq,
     marker |-> "absent", upd |-> SessionUpdateNew]

Terminal == {"Revoked", "LoggedOut", "Superseded"}

\* the addresses requests name: one a user holds already, two no user holds
Emails == {"a", "c", "d"}

UserIds == {u.id : u \in users}

SetMax(S) == CHOOSE m \in S : \A x \in S : x <= m

\* Uuid::new_v4(): an id no row carries yet
NewUuid == SetMax(UserIds \cup {regs[i].user_id : i \in DOMAIN regs} \cup {0}) + 1

(* ------------------------------- store -------------------------------- *)
\* DatabaseClient::create_session: inserts the row, timestamps in seconds
CreateSession(s) ==
    sessions' = [h \in DOMAIN sessions \cup {s.id_hash} |->
                    IF h = s.id_hash
                    THEN [s EXCEPT !.created_at = Timestamp(s.created_at),
                                   !.expires_at = Timestamp(s.expires_at)]
                    ELSE sessions[h]]

\* DatabaseClient::update_session: the fields the update carries replace the
\* row's, expires_at in whole seconds, the others stay
UpdateSession(h, upd) ==
    sessions' = [sessions EXCEPT ![h] =
                    [sessions[h] EXCEPT
                        !.state = IF upd.has_state THEN upd.state ELSE @,
                        !.expires_at = IF upd.has_expires_at
                                       THEN Timestamp(upd.expires_at) ELSE @]]

\* DatabaseClient::update_session with SessionUpdate { state: Some(st), expires_at: None }
UpdateSessionState(h, st) == UpdateSession(h, WithState(SessionUpdateNew, st))

GetSessionByIdHashOldColumns(h) ==
    IF h \in DOMAIN sessions
    THEN [err |-> "none",
          session |-> [sessions[h] EXCEPT !.is_admin = FALSE,
                                          !.parent_id_hash = NoHash]]
    ELSE [err |-> "NotFound", session |-> NoSession]

\* SqliteClient::get_session_by_id_hash: SELECT * of the row, NotFound when
\* there is none
GetSessionByIdHash(h) ==
    IF h \in DOMAIN sessions
    THEN [err |-> "none", session |-> sessions[h]]
    ELSE [err |-> "NotFound", session |-> NoSession]

\* PasskeyCredentialUpdate::new(), with_display_name, with_passkey, is_empty:
\* each field is an Option, modelled as a flag and a value
PasskeyCredentialUpdateNew ==
    [has_display_name |-> FALSE, display_name |-> "none",
     has_passkey |-> FALSE, passkey |-> 0]
WithDisplayName(upd, name) ==
    [upd EXCEPT !.has_display_name = TRUE, !.display_name = name]
WithPasskey(upd, material) ==
    [upd EXCEPT !.has_passkey = TRUE, !.passkey = material]
PasskeyUpdateIsEmpty(upd) == ~upd.has_display_name /\ ~upd.has_passkey

\* DatabaseClient::update_passkey: the fields the update carries replace the
\* row's, the others stay
UpdatePasskey(id, upd) ==
    LET row == passkeys[id] IN
    passkeys' = [passkeys EXCEPT ![id] =
                    [user_id |-> row.user_id,
                     counter |-> IF upd.has_passkey THEN upd.passkey
                                 ELSE row.counter,
                     display_name |-> IF upd.has_display_name
                                      THEN upd.display_name
                                      ELSE row.display_name]]

\* get_passkey_registration_by_id / get_passkey_authentication_by_id find a
\* row: the handle names one and the row has not been deleted. A deleted row
\* stays in the table as a tombstone, so that handles, like the UUIDs they
\* model, are never handed out twice
Stored(rows, h) == h \in DOMAIN rows /\ ~rows[h].reaped

\* the age test of finish_registration and finish_authentication, on the
\* stored created_at
Expired(row) == row.created_at < now - CEREMONY_TTL

\* a run of the reaper that succeeds: it deletes the registration and
\* authentication states older than the ceremony TTL. A run that fails
\* changes nothing and is a stuttering step
ReaperRun ==
    /\ \/ \E h \in DOMAIN regs : ~regs[h].reaped /\ Expired(regs[h])
       \/ \E h \in DOMAIN auths : ~auths[h].reaped /\ Expired(auths[h])
    /\ regs' = [h \in DOMAIN regs |->
                  [regs[h] EXCEPT !.reaped = @ \/ Expired(regs[h])]]
    /\ auths' = [h \in DOMAIN auths |->
                   [auths[h] EXCEPT !.reaped = @ \/ Expired(auths[h])]]
    /\ UNCHANGED <<now, users, tags, passkeys, sessions, nextTok, issued,
                   nreq, pc, loc>>

(* ------------------------------- clock -------------------------------- *)
SubTicks(t) == t % CEREMONY_TTL
TtlJumps(t) == (t % SESSION_DURATION) \div CEREMONY_TTL
DayJumps(t) == t \div SESSION_DURATION

TickSub ==
    /\ SubTicks(now) < MaxSubTicks
    /\ now' = now + 1
    /\ UNCHANGED <<users, tags, passkeys, regs, auths, sessions, nextTok,
                   issued, nreq, pc, loc>>

TickTtl ==
    /\ TtlJumps(now) < MaxTtlJumps
    /\ now' = now + CEREMONY_TTL
    /\ UNCHANGED <<users, tags, passkeys, regs, auths, sessions, nextTok,
                   issued, nreq, pc, loc>>

TickDay ==
    /\ DayJumps(now) < MaxDayJumps
    /\ now' = now + SESSION_DURATION
    /\ UNCHANGED <<users, tags, passkeys, regs, auths, sessions, nextTok,
                   issued, nreq, pc, loc>>

(* --------------------------- tag management --------------------------- *)
\* DatabaseClient::add_tag_to_user for the "iam::admin" tag
AddTag(u) ==
    /\ u \in UserIds
    /\ u \notin tags
    /\ tags' = tags \cup {u}
    /\ UNCHANGED <<now, users, passkeys, regs, auths, sessions, nextTok,
                   issued, nreq, pc, loc>>

\* DatabaseClient::remove_tag_from_user for the "iam::admin" tag
RemoveTag(u) ==
    /\ u \in tags
    /\ tags' = tags \ {u}
    /\ UNCHANGED <<now, users, passkeys, regs, auths, sessions, nextTok,
                   issued, nreq, pc, loc>>

(* ------------------------- user management ---------------------------- *)
\* the rows of passkey_authentications whose user_email references the
\* users row with email e
AuthRefs(e) == {h \in DOMAIN auths : ~auths[h].reaped /\ auths[h].email = e}

\* the referential actions the foreign key of user_email can be declared
\* with: on an update of the referenced email the referencing rows follow it,
\* are set to NULL, or make the update fail
ReferentialActions == {"CASCADE", "SET NULL", "NO ACTION"}

\* DatabaseClient::update_user with UserUpdate::new().with_email(e): UPDATE
\* users SET email = e WHERE id = u. The statement fails, and changes
\* nothing, when no row has the id, when another row has the email, or when
\* the foreign key forbids it
UpdateUser(u, e) ==
    /\ u \in UserIds
    /\ \A r \in users : r.email # e
    /\ LET old == (CHOOSE r \in users : r.id = u).email IN
       \E action \in ReferentialActions :
          /\ action = "NO ACTION" => AuthRefs(old) = {}
          /\ auths' = [h \in DOMAIN auths |->
                          IF h \in AuthRefs(old)
                          THEN [auths[h] EXCEPT !.email =
                                   IF action = "CASCADE" THEN e ELSE "none"]
                          ELSE auths[h]]
    /\ users' = {IF r.id = u THEN [r EXCEPT !.email = e] ELSE r : r \in users}
    /\ UNCHANGED <<now, tags, passkeys, regs, sessions, nextTok, issued, nreq,
                   pc, loc>>

(* ----------------------- AuthenticatedSession ------------------------- *)
\* the cookie values a client can put in a request
Cookies == issued \cup {NoCookie, BadCookie, ToHex(NeverMinted)}

ValidateNoStateCheck(c) ==
    IF c.kind = "none" THEN [err |-> "NotLoggedIn", session |-> NoSession]
    ELSE IF c.kind = "bad" THEN [err |-> "InvalidSessionId", session |-> NoSession]
    ELSE IF FromHex(c) \notin DOMAIN sessions
         THEN [err |-> "NotLoggedIn", session |-> NoSession]
    ELSE IF sessions[FromHex(c)].expires_at < now
         THEN [err |-> "SessionExpired", session |-> NoSession]
    ELSE [err |-> "none", session |-> sessions[FromHex(c)]]

ValidateExpiryInclusive(c) ==
    IF c.kind = "none" THEN [err |-> "NotLoggedIn", session |-> NoSession]
    ELSE IF c.kind = "bad" THEN [err |-> "InvalidSessionId", session |-> NoSession]
    ELSE IF FromHex(c) \notin DOMAIN sessions
         THEN [err |-> "NotLoggedIn", session |-> NoSession]
    ELSE IF \/ sessions[FromHex(c)].state # "Active"
            \/ sessions[FromHex(c)].expires_at <= now
         THEN [err |-> "SessionExpired", session |-> NoSession]
    ELSE [err |-> "none", session |-> sessions[FromHex(c)]]

\* AuthenticatedSession::from_request_parts: the session the cookie names, or
\* the rejection
Validate(c) ==
    IF c.kind = "none" THEN [err |-> "NotLoggedIn", session |-> NoSession]
    ELSE IF c.kind = "bad" THEN [err |-> "InvalidSessionId", session |-> NoSession]
    ELSE IF FromHex(c) \notin DOMAIN sessions
         THEN [err |-> "NotLoggedIn", session |-> NoSession]
    ELSE IF \/ sessions[FromHex(c)].state # "Active"
            \/ sessions[FromHex(c)].expires_at < now
         THEN [err |-> "SessionExpired", session |-> NoSession]
    ELSE [err |-> "none", session |-> sessions[FromHex(c)]]

\* the server accepts one more request into the idle slot p
Accept(p) ==
    /\ pc[p] = "idle"
    /\ nreq < MaxRequests
    /\ nreq' = nreq + 1

\* a request of handler `op` arrives with cookie c: the extractor runs, and the
\* handler body starts at step `first` when it accepts
Begin(p, op, c, first) ==
    /\ Accept(p)
    /\ Validate(c).err = "none"
    /\ pc' = [pc EXCEPT ![p] = first]
    /\ loc' = [loc EXCEPT ![p] = [NoLoc EXCEPT !.op = op, !.cookie = c,
                                     !.session = Validate(c).session]]
    /\ UNCHANGED <<now, users, tags, passkeys, regs, auths, sessions, nextTok,
                   issued>>

RejectWritesBack(p, c) ==
    /\ Accept(p)
    /\ Validate(c).err # "none"
    /\ pc' = [pc EXCEPT ![p] = "done"]
    /\ loc' = [loc EXCEPT ![p] = [NoLoc EXCEPT !.op = "rejected", !.cookie = c,
                                     !.err = Validate(c).err]]
    /\ sessions' = IF Validate(c).err = "SessionExpired"
                   THEN [sessions EXCEPT ![FromHex(c)].state = "Revoked"]
                   ELSE sessions
    /\ UNCHANGED <<now, users, tags, passkeys, regs, auths, nextTok, issued>>

\* a request of any protected handler arrives with cookie c and the extractor
\* rejects it: the handler body never runs
Reject(p, c) ==
    /\ Accept(p)
    /\ Validate(c).err # "none"
    /\ pc' = [pc EXCEPT ![p] = "done"]
    /\ loc' = [loc EXCEPT ![p] = [NoLoc EXCEPT !.op = "rejected", !.cookie = c,
                                     !.err = Validate(c).err]]
    /\ UNCHANGED <<now, users, tags, passkeys, regs, auths, sessions, nextTok,
                   issued>>

\* the values a client can send in the session_is_admin cookie: none, the
\* "y" new_session sets for an elevated session, or anything else
Markers == {"absent", "y", "n"}

\* the cookie jar of a request
Jars == [session_id : Cookies, session_is_admin : Markers]

\* AuthenticatedSession::from_request_parts on a whole jar: the only cookie
\* it takes from the jar is session_id
AuthenticatedSession(jar) == Validate(jar.session_id)

AdminSessionTrustsMarker(jar) ==
    LET v == AuthenticatedSession(jar) IN
    IF v.err # "none" THEN v
    ELSE IF jar.session_is_admin = "y" THEN v
    ELSE [err |-> "NotAdmin", session |-> NoSession]

\* AdminSession::from_request_parts: the authenticated session when its
\* stored is_admin is set, NotAdmin otherwise
AdminSession(jar) ==
    LET v == AuthenticatedSession(jar) IN
    IF v.err # "none" THEN v
    ELSE IF v.session.is_admin THEN v
    ELSE [err |-> "NotAdmin", session |-> NoSession]

\* a request arrives at a handler that takes an AdminSession: the extractor
\* answers, and such a handler changes no session
AdminRequest(p, jar) ==
    /\ Accept(p)
    /\ pc' = [pc EXCEPT ![p] = "done"]
    /\ loc' = [loc EXCEPT ![p] =
                  [NoLoc EXCEPT !.op = "admin", !.cookie = jar.session_id,
                                !.marker = jar.session_is_admin,
                                !.session = AdminSession(jar).session,
                                !.err = AdminSession(jar).err]]
    /\ UNCHANGED <<now, users, tags, passkeys, regs, auths, sessions, nextTok,
                   issued>>

ReturnCookiesOnError(p) ==
    /\ pc[p] = "done"
    /\ issued' = IF loc[p].new # NoHash
                 THEN issued \cup {ToHex(loc[p].new)} ELSE issued
    /\ pc' = [pc EXCEPT ![p] = "idle"]
    /\ loc' = [loc EXCEPT ![p] = NoLoc]
    /\ UNCHANGED <<now, users, tags, passkeys, regs, auths, sessions, nextTok,
                   nreq>>

\* the response reaches the client: its Set-Cookie is now a value the client holds
Return(p) ==
    /\ pc[p] = "done"
    /\ issued' = IF loc[p].err = "none" /\ loc[p].new # NoHash
                 THEN issued \cup {ToHex(loc[p].new)} ELSE issued
    /\ pc' = [pc EXCEPT ![p] = "idle"]
    /\ loc' = [loc EXCEPT ![p] = NoLoc]
    /\ UNCHANGED <<now, users, tags, passkeys, regs, auths, sessions, nextTok,
                   nreq>>

\* the handler returns Err(e); `cause` names the store call whose
\* DatabaseError an InternalServerError carries
FailBy(p, e, cause) ==
    /\ pc' = [pc EXCEPT ![p] = "done"]
    /\ loc' = [loc EXCEPT ![p].err = e, ![p].cause = cause]

Fail(p, e) == FailBy(p, e, "none")

\* ApiV1Error::into_response: the status code the client sees (the body is
\* the error's message); "none" is the handler's Ok response
StatusCode(e) ==
    CASE e \in {"WebAuthn", "InternalServerError"} -> 500
      [] e \in {"InvalidAuthenticationId", "InvalidRegistrationId",
                "InvalidSessionId", "DowngradeImpossible"} -> 400
      [] e \in {"UserNotFound", "NotFound"} -> 404
      [] e \in {"NotLoggedIn", "SessionExpired", "NotAdmin", "AuthFailed"} -> 401
      [] OTHER -> 200

(* ---------------------------- new_session ----------------------------- *)
\* new_session: draws the id, hashes it, reads the clock for created_at and
\* again for expires_at, and stores the row; the session_id cookie it sets
\* carries id_hash.to_string().  Yields the new row's id_hash in loc[p].new.
NewSession(p, user_id, is_admin, parent, next) ==
    /\ nextTok <= MaxSessions
    /\ \E adv \in {0, 1} :
         /\ adv = 1 => SubTicks(now) < MaxSubTicks
         /\ now' = now + adv
         /\ \/ /\ CreateSession(
                    [id_hash |-> Blake3(nextTok), user_id |-> user_id,
                     state |-> "Active", created_at |-> now,
                     expires_at |-> now + adv + SESSION_DURATION,
                     is_admin |-> is_admin, parent_id_hash |-> parent])
               /\ nextTok' = nextTok + 1
               /\ pc' = [pc EXCEPT ![p] = next]
               /\ loc' = [loc EXCEPT ![p].new = Blake3(nextTok)]
            \/ /\ FailBy(p, "InternalServerError", "create_session")
               /\ UNCHANGED <<sessions, nextTok>>

(* -------------------------- session handlers -------------------------- *)
\* get_session: a protected read, the extractor alone decides
GetSession(p, c) == Begin(p, "get_session", c, "done")

LogoutBegin(p, c) == Begin(p, "logout", c, "logout_get")

LogoutGetNoStateTest(p) ==
    /\ pc[p] = "logout_get"
    /\ loc' = [loc EXCEPT ![p].session = sessions[loc[p].session.id_hash]]
    /\ pc' = [pc EXCEPT ![p] = "logout_update"]
    /\ UNCHANGED <<now, users, tags, passkeys, regs, auths, sessions, nextTok,
                   issued, nreq>>

\* logout: `let session = state.db.get_session_by_id_hash(&session.id_hash)`
\* shadows the extractor's session with the row as stored now, and the
\* update is skipped unless that row is Active
LogoutGet(p) ==
    /\ pc[p] = "logout_get"
    /\ loc' = [loc EXCEPT ![p].session = sessions[loc[p].session.id_hash]]
    /\ pc' = [pc EXCEPT ![p] =
                 IF sessions[loc[p].session.id_hash].state = "Active"
                 THEN "logout_update" ELSE "done"]
    /\ UNCHANGED <<now, users, tags, passkeys, regs, auths, sessions, nextTok,
                   issued, nreq>>

\* logout: update_session(.., with_state(LoggedOut))
LogoutUpdate(p) ==
    /\ pc[p] = "logout_update"
    /\ \/ /\ UpdateSessionState(loc[p].session.id_hash, "LoggedOut")
          /\ pc' = [pc EXCEPT ![p] = "done"]
          /\ UNCHANGED loc
       \/ /\ FailBy(p, "InternalServerError", "update_session")
          /\ UNCHANGED sessions
    /\ UNCHANGED <<now, users, tags, passkeys, regs, auths, nextTok, issued,
                   nreq>>

UpgradeBegin(p, c) == Begin(p, "upgrade", c, "up_tags")

UpgradeSkipMint(p) ==
    /\ pc[p] = "up_tags"
    /\ IF loc[p].session.user_id \in tags
       THEN pc' = [pc EXCEPT ![p] = "up_supersede"] /\ UNCHANGED loc
       ELSE Fail(p, "NotAdmin")
    /\ UNCHANGED <<now, users, tags, passkeys, regs, auths, sessions, nextTok,
                   issued, nreq>>

UpgradeNoTagCheck(p) ==
    /\ pc[p] = "up_tags"
    /\ pc' = [pc EXCEPT ![p] = "up_mint"]
    /\ UNCHANGED <<now, users, tags, passkeys, regs, auths, sessions, nextTok,
                   issued, nreq, loc>>

\* upgrade_session: get_tags_by_user_id and the "iam::admin" check
UpgradeCheckTags(p) ==
    /\ pc[p] = "up_tags"
    /\ IF loc[p].session.user_id \in tags
       THEN pc' = [pc EXCEPT ![p] = "up_mint"] /\ UNCHANGED loc
       ELSE Fail(p, "NotAdmin")
    /\ UNCHANGED <<now, users, tags, passkeys, regs, auths, sessions, nextTok,
                   issued, nreq>>

UpgradeMintNoParent(p) ==
    /\ pc[p] = "up_mint"
    /\ NewSession(p, loc[p].session.user_id, TRUE, NoHash, "up_supersede")
    /\ UNCHANGED <<users, tags, passkeys, regs, auths, issued, nreq>>

\* upgrade_session: new_session(.., &session.user_id, true, Some(&session))
UpgradeMint(p) ==
    /\ pc[p] = "up_mint"
    /\ NewSession(p, loc[p].session.user_id, TRUE, loc[p].session.id_hash,
                  "up_supersede")
    /\ UNCHANGED <<users, tags, passkeys, regs, auths, issued, nreq>>

SupersedeSessionExpires(p) ==
    /\ \/ /\ sessions' = [sessions EXCEPT
                            ![loc[p].session.id_hash].state = "Superseded",
                            ![loc[p].session.id_hash].expires_at = Timestamp(now)]
          /\ pc' = [pc EXCEPT ![p] = "done"]
          /\ UNCHANGED loc
       \/ /\ FailBy(p, "InternalServerError", "update_session")
          /\ UNCHANGED sessions
    /\ UNCHANGED <<now, users, tags, passkeys, regs, auths, nextTok, issued,
                   nreq>>

\* supersede_session: update_session(.., state: Some(Superseded))
SupersedeSession(p) ==
    /\ \/ /\ UpdateSessionState(loc[p].session.id_hash, "Superseded")
          /\ pc' = [pc EXCEPT ![p] = "done"]
          /\ UNCHANGED loc
       \/ /\ FailBy(p, "InternalServerError", "update_session")
          /\ UNCHANGED sessions
    /\ UNCHANGED <<now, users, tags, passkeys, regs, auths, nextTok, issued,
                   nreq>>

\* upgrade_session: supersede_session(&*state.db, &session)
UpgradeSupersede(p) ==
    /\ pc[p] = "up_supersede"
    /\ SupersedeSession(p)

DowngradeBegin(p, c) == Begin(p, "downgrade", c, "down_parent")

DowngradeGetParentNoTest(p) ==
    /\ pc[p] = "down_parent"
    /\ IF loc[p].session.parent_id_hash = NoHash
       THEN /\ loc' = [loc EXCEPT ![p].parent = loc[p].session]
            /\ pc' = [pc EXCEPT ![p] = "down_mint"]
       ELSE IF loc[p].session.parent_id_hash \in DOMAIN sessions
       THEN /\ loc' = [loc EXCEPT ![p].parent =
                          sessions[loc[p].session.parent_id_hash]]
            /\ pc' = [pc EXCEPT ![p] = "down_mint"]
       ELSE Fail(p, "NotFound")
    /\ UNCHANGED <<now, users, tags, passkeys, regs, auths, sessions, nextTok,
                   issued, nreq>>

DowngradeGetParentOtherUser(p) ==
    /\ pc[p] = "down_parent"
    /\ IF loc[p].session.parent_id_hash = NoHash
       THEN Fail(p, "DowngradeImpossible")
       ELSE /\ loc' = [loc EXCEPT ![p].parent =
                          sessions[CHOOSE h \in DOMAIN sessions :
                                      sessions[h].user_id
                                          # loc[p].session.user_id]]
            /\ pc' = [pc EXCEPT ![p] = "down_mint"]
    /\ UNCHANGED <<now, users, tags, passkeys, regs, auths, sessions, nextTok,
                   issued, nreq>>

\* downgrade_session: the parent_id_hash test and get_session_by_id_hash(&parent_id_hash)
DowngradeGetParent(p) ==
    /\ pc[p] = "down_parent"
    /\ IF loc[p].session.parent_id_hash = NoHash
       THEN Fail(p, "DowngradeImpossible")
       ELSE IF loc[p].session.parent_id_hash \in DOMAIN sessions
       THEN /\ loc' = [loc EXCEPT ![p].parent =
                          sessions[loc[p].session.parent_id_hash]]
            /\ pc' = [pc EXCEPT ![p] = "down_mint"]
       ELSE Fail(p, "NotFound")
    /\ UNCHANGED <<now, users, tags, passkeys, regs, auths, sessions, nextTok,
                   issued, nreq>>

DowngradeMintFromCurrent(p) ==
    /\ pc[p] = "down_mint"
    /\ NewSession(p, loc[p].session.user_id, loc[p].session.is_admin,
                  loc[p].session.id_hash, "down_supersede")
    /\ UNCHANGED <<users, tags, passkeys, regs, auths, issued, nreq>>

\* downgrade_session: new_session(.., &parent_session.user_id,
\* parent_session.is_admin, Some(&session))
DowngradeMint(p) ==
    /\ pc[p] = "down_mint"
    /\ NewSession(p, loc[p].parent.user_id, loc[p].parent.is_admin,
                  loc[p].session.id_hash, "down_supersede")
    /\ UNCHANGED <<users, tags, passkeys, regs, auths, issued, nreq>>

DowngradeSupersedeReactivates(p) ==
    /\ pc[p] = "down_supersede"
    /\ \/ /\ sessions' = [sessions EXCEPT
                            ![loc[p].session.id_hash].state = "Superseded",
                            ![loc[p].parent.id_hash].state = "Active"]
          /\ pc' = [pc EXCEPT ![p] = "done"]
          /\ UNCHANGED loc
       \/ /\ FailBy(p, "InternalServerError", "update_session")
          /\ UNCHANGED sessions
    /\ UNCHANGED <<now, users, tags, passkeys, regs, auths, nextTok, issued,
                   nreq>>

\* downgrade_session: supersede_session(&*state.db, &session)
DowngradeSupersede(p) ==
    /\ pc[p] = "down_supersede"
    /\ SupersedeSession(p)

(* ---------------------------- registration ---------------------------- *)
\* start_registration: draws user_id and the ceremony id, stamps created_at
\* and stores the state with create_passkey_registration, which keeps whole
\* seconds; `stamped` remembers the instant the handler read, which no later
\* read of the row returns
StartRegistration(p, e) ==
    /\ Accept(p)
    /\ Len(regs) < MaxRegs
    /\ \/ /\ regs' = Append(regs, [id |-> Len(regs) + 1, user_id |-> NewUuid,
                                   email |-> e, stamped |-> now,
                                   created_at |-> Timestamp(now),
                                   reaped |-> FALSE])
          /\ pc' = [pc EXCEPT ![p] = "done"]
          /\ loc' = [loc EXCEPT ![p] = [NoLoc EXCEPT !.op = "start_registration",
                                           !.h = Len(regs) + 1, !.email = e]]
       \/ /\ pc' = [pc EXCEPT ![p] = "done"]
          /\ loc' = [loc EXCEPT ![p] =
                        [NoLoc EXCEPT !.op = "start_registration", !.email = e,
                                      !.err = "InternalServerError",
                                      !.cause = "create_passkey_registration"]]
          /\ UNCHANGED regs
    /\ UNCHANGED <<now, users, tags, passkeys, auths, sessions, nextTok, issued>>

\* the uniqueness the users table enforces on id and on email
UserKeyTaken(id, e) == \E u \in users : u.id = id \/ u.email = e

\* the result of finish_registration's cookie parsing, state lookup, expiry
\* test and library verification, for handle h (0: no or unparseable cookie)
RegistrationChecks(h, ok) ==
    IF h = 0 THEN "InvalidRegistrationId"
    ELSE IF ~Stored(regs, h) THEN "NotFound"
    ELSE IF regs[h].created_at < now - CEREMONY_TTL THEN "SessionExpired"
    ELSE IF ~ok THEN "WebAuthn"
    ELSE "none"

\* finish_registration up to the verified passkey: the request carries the
\* registration_id cookie h, the user data (email e) and a response the
\* library accepts or not
FinishRegistration(p, h, e, ok) ==
    /\ Accept(p)
    /\ LET r == RegistrationChecks(h, ok)
           l == [NoLoc EXCEPT !.op = "finish_registration", !.h = h,
                              !.email = e, !.req = [NoReq EXCEPT !.ok = ok]]
       IN IF r = "none"
          THEN /\ pc' = [pc EXCEPT ![p] = "reg_create_user"]
               /\ loc' = [loc EXCEPT ![p] = [l EXCEPT !.user_id = regs[h].user_id]]
          ELSE /\ pc' = [pc EXCEPT ![p] = "done"]
               /\ loc' = [loc EXCEPT ![p] = [l EXCEPT !.err = r]]
    /\ UNCHANGED <<now, users, tags, passkeys, regs, auths, sessions, nextTok,
                   issued>>

RegCreateUserFreshId(p) ==
    /\ pc[p] = "reg_create_user"
    /\ \/ /\ ~UserKeyTaken(NewUuid, loc[p].email)
          /\ users' = users \cup {[id |-> NewUuid, email |-> loc[p].email,
                                   reg |-> loc[p].h]}
          /\ pc' = [pc EXCEPT ![p] = "reg_create_passkey"]
          /\ loc' = [loc EXCEPT ![p].user_id = NewUuid]
       \/ /\ UserKeyTaken(NewUuid, loc[p].email)
          /\ FailBy(p, "InternalServerError", "create_user.UniquenessViolation")
          /\ UNCHANGED users
       \/ /\ FailBy(p, "InternalServerError", "create_user")
          /\ UNCHANGED users
    /\ UNCHANGED <<now, tags, passkeys, regs, auths, sessions, nextTok, issued,
                   nreq>>

RegCreateUserCompensates(p) ==
    /\ pc[p] = "reg_create_user"
    /\ \/ /\ ~UserKeyTaken(loc[p].user_id, loc[p].email)
          /\ users' = users \cup {[id |-> loc[p].user_id, email |-> loc[p].email,
                                   reg |-> loc[p].h]}
          /\ pc' = [pc EXCEPT ![p] = "reg_create_passkey"]
          /\ UNCHANGED loc
       \/ /\ UserKeyTaken(loc[p].user_id, loc[p].email)
          /\ pc' = [pc EXCEPT ![p] = "reg_delete_user"]
          /\ loc' = [loc EXCEPT ![p].cause = "create_user.UniquenessViolation"]
          /\ UNCHANGED users
       \/ /\ FailBy(p, "InternalServerError", "create_user")
          /\ UNCHANGED users
    /\ UNCHANGED <<now, tags, passkeys, regs, auths, sessions, nextTok, issued,
                   nreq>>

\* finish_registration: create_user(&reg_state.user_id, &request.user); a
\* taken id or email is DatabaseError::UniquenessViolation, any other store
\* failure DatabaseError::Other
RegCreateUser(p) ==
    /\ pc[p] = "reg_create_user"
    /\ \/ /\ ~UserKeyTaken(loc[p].user_id, loc[p].email)
          /\ users' = users \cup {[id |-> loc[p].user_id, email |-> loc[p].email,
                                   reg |-> loc[p].h]}
          /\ pc' = [pc EXCEPT ![p] = "reg_create_passkey"]
          /\ UNCHANGED loc
       \/ /\ UserKeyTaken(loc[p].user_id, loc[p].email)
          /\ FailBy(p, "InternalServerError", "create_user.UniquenessViolation")
          /\ UNCHANGED users
       \/ /\ FailBy(p, "InternalServerError", "create_user")
          /\ UNCHANGED users
    /\ UNCHANGED <<now, tags, passkeys, regs, auths, sessions, nextTok, issued,
                   nreq>>

\* the credential id of a passkey no row carries yet
NewCred == SetMax(DOMAIN passkeys \cup {0}) + 1

RegCreatePasskeyNoCompensation(p) ==
    /\ pc[p] = "reg_create_passkey"
    /\ \/ /\ passkeys' = [c \in DOMAIN passkeys \cup {NewCred} |->
                            IF c = NewCred
                            THEN [user_id |-> loc[p].user_id, counter |-> 0, display_name |-> "none"]
                            ELSE passkeys[c]]
          /\ pc' = [pc EXCEPT ![p] = "reg_new_session"]
          /\ UNCHANGED loc
       \/ /\ FailBy(p, "InternalServerError", "create_passkey")
          /\ UNCHANGED passkeys
    /\ UNCHANGED <<now, users, tags, regs, auths, sessions, nextTok, issued,
                   nreq>>

RegCreatePasskeyOtherOwner(p) ==
    /\ pc[p] = "reg_create_passkey"
    /\ \/ /\ passkeys' = [c \in DOMAIN passkeys \cup {NewCred} |->
                            IF c = NewCred
                            THEN [user_id |-> CHOOSE u \in UserIds :
                                                     u # loc[p].user_id,
                                  counter |-> 0, display_name |-> "none"]
                            ELSE passkeys[c]]
          /\ pc' = [pc EXCEPT ![p] = "reg_new_session"]
          /\ UNCHANGED loc
       \/ /\ pc' = [pc EXCEPT ![p] = "reg_delete_user"]
          /\ loc' = [loc EXCEPT ![p].cause = "create_passkey"]
          /\ UNCHANGED passkeys
    /\ UNCHANGED <<now, users, tags, regs, auths, sessions, nextTok, issued,
                   nreq>>

\* finish_registration: create_passkey(&Uuid::new_v4(), user.id(), &new_passkey);
\* on Err(err) the handler goes on to the compensating delete, holding err
RegCreatePasskey(p) ==
    /\ pc[p] = "reg_create_passkey"
    /\ \/ /\ passkeys' = [c \in DOMAIN passkeys \cup {NewCred} |->
                            IF c = NewCred
                            THEN [user_id |-> loc[p].user_id, counter |-> 0, display_name |-> "none"]
                            ELSE passkeys[c]]
          /\ pc' = [pc EXCEPT ![p] = "reg_new_session"]
          /\ UNCHANGED loc
       \/ /\ pc' = [pc EXCEPT ![p] = "reg_delete_user"]
          /\ loc' = [loc EXCEPT ![p].cause = "create_passkey"]
          /\ UNCHANGED passkeys
    /\ UNCHANGED <<now, users, tags, regs, auths, sessions, nextTok, issued,
                   nreq>>

\* finish_registration: delete_user_by_id(user.id()), whose own error is only
\* logged, then return Err(err.into()) with the create_passkey error
RegDeleteUser(p) ==
    /\ pc[p] = "reg_delete_user"
    /\ \/ users' = {u \in users : u.id # loc[p].user_id}
       \/ UNCHANGED users
    /\ FailBy(p, "InternalServerError", loc[p].cause)
    /\ UNCHANGED <<now, tags, passkeys, regs, auths, sessions, nextTok, issued,
                   nreq>>

RegNewSessionCompensates(p) ==
    /\ pc[p] = "reg_new_session"
    /\ NewSession(p, loc[p].user_id, FALSE, NoHash, "done")
    /\ users' = IF loc'[p].err = "none" THEN users
                ELSE {u \in users : u.id # loc[p].user_id}
    /\ UNCHANGED <<tags, passkeys, regs, auths, issued, nreq>>

\* finish_registration: new_session(cookies, db, user.id(), false, None)?;
\* its error is returned as it is, with no compensating call
RegNewSession(p) ==
    /\ pc[p] = "reg_new_session"
    /\ NewSession(p, loc[p].user_id, FALSE, NoHash, "done")
    /\ UNCHANGED <<users, tags, passkeys, regs, auths, issued, nreq>>

(* --------------------------- authentication --------------------------- *)
\* get_passkeys_by_user_email: the credentials of the user with that email
PasskeysByEmail(e) ==
    {c \in DOMAIN passkeys :
        \E u \in users : u.email = e /\ u.id = passkeys[c].user_id}

\* DatabaseClient::create_passkey_authentication (whole seconds)
CreatePasskeyAuthentication(e, mode, creds) ==
    auths' = Append(auths, [id |-> Len(auths) + 1, email |-> e, mode |-> mode,
                            creds |-> creds, stamped |-> now,
                            created_at |-> Timestamp(now), reaped |-> FALSE])

\* the foreign key of passkey_authentications.user_email: the row of a
\* discoverable ceremony carries no email, any other names a user's email
EmailKnown(e) == e = "none" \/ \E u \in users : u.email = e

StartAuthenticationNoForeignKey(p, e) ==
    /\ Accept(p)
    /\ Len(auths) < MaxAuths
    /\ \/ /\ CreatePasskeyAuthentication(e, "Regular", PasskeysByEmail(e))
          /\ pc' = [pc EXCEPT ![p] = "done"]
          /\ loc' = [loc EXCEPT ![p] = [NoLoc EXCEPT !.op = "start_authentication",
                                           !.h = Len(auths) + 1, !.email = e]]
       \/ /\ pc' = [pc EXCEPT ![p] = "done"]
          /\ loc' = [loc EXCEPT ![p] =
                        [NoLoc EXCEPT !.op = "start_authentication", !.email = e,
                                      !.err = "InternalServerError",
                                      !.cause = "create_passkey_authentication"]]
          /\ UNCHANGED auths
    /\ UNCHANGED <<now, users, tags, passkeys, regs, sessions, nextTok, issued>>

\* start_authentication: get_passkeys_by_user_email yields the credentials of
\* the user with that email, none when no user has it; the library's state
\* holds them, the row holds Some(email) and Regular(state).  The insert of a
\* row whose email no user has is a foreign-key violation, which
\* create_passkey_authentication reports as DatabaseError::UserNotFound
StartAuthentication(p, e) ==
    /\ Accept(p)
    /\ Len(auths) < MaxAuths
    /\ \/ /\ EmailKnown(e)
          /\ CreatePasskeyAuthentication(e, "Regular", PasskeysByEmail(e))
          /\ pc' = [pc EXCEPT ![p] = "done"]
          /\ loc' = [loc EXCEPT ![p] = [NoLoc EXCEPT !.op = "start_authentication",
                                           !.h = Len(auths) + 1, !.email = e]]
       \/ /\ ~EmailKnown(e)
          /\ pc' = [pc EXCEPT ![p] = "done"]
          /\ loc' = [loc EXCEPT ![p] =
                        [NoLoc EXCEPT !.op = "start_authentication", !.email = e,
                                      !.err = "UserNotFound",
                                      !.cause = "create_passkey_authentication"]]
          /\ UNCHANGED auths
       \/ /\ pc' = [pc EXCEPT ![p] = "done"]
          /\ loc' = [loc EXCEPT ![p] =
                        [NoLoc EXCEPT !.op = "start_authentication", !.email = e,
                                      !.err = "InternalServerError",
                                      !.cause = "create_passkey_authentication"]]
          /\ UNCHANGED auths
    /\ UNCHANGED <<now, users, tags, passkeys, regs, sessions, nextTok, issued>>

\* start_conditional_ui_authentication: email None, Discoverable(state)
StartConditional(p) ==
    /\ Accept(p)
    /\ Len(auths) < MaxAuths
    /\ \/ /\ CreatePasskeyAuthentication("none", "Discoverable", {})
          /\ pc' = [pc EXCEPT ![p] = "done"]
          /\ loc' = [loc EXCEPT ![p] = [NoLoc EXCEPT !.op = "start_conditional",
                                           !.h = Len(auths) + 1]]
       \/ /\ pc' = [pc EXCEPT ![p] = "done"]
          /\ loc' = [loc EXCEPT ![p] =
                        [NoLoc EXCEPT !.op = "start_conditional",
                                      !.err = "InternalServerError",
                                      !.cause = "create_passkey_authentication"]]
          /\ UNCHANGED auths
    /\ UNCHANGED <<now, users, tags, passkeys, regs, sessions, nextTok, issued>>

\* the WebAuthn responses a client can send
Requests ==
    [user : {0} \cup UserIds, cred : {0} \cup DOMAIN passkeys,
     ok : BOOLEAN, upd : BOOLEAN]

AuthenticationChecksNoModeTest(h, req) ==
    IF h = 0 THEN "InvalidAuthenticationId"
    ELSE IF ~Stored(auths, h) THEN "NotFound"
    ELSE IF auths[h].created_at < now - CEREMONY_TTL THEN "SessionExpired"
    ELSE IF ~(req.ok /\ req.cred \in auths[h].creds) THEN "WebAuthn"
    ELSE "none"

\* the result of finish_authentication's cookie parsing, state lookup, expiry
\* test, mode test and library verification (the response must be signed by
\* one of the credentials the ceremony was started with)
AuthenticationChecks(h, req) ==
    IF h = 0 THEN "InvalidAuthenticationId"
    ELSE IF ~Stored(auths, h) THEN "NotFound"
    ELSE IF auths[h].created_at < now - CEREMONY_TTL THEN "SessionExpired"
    ELSE IF auths[h].mode # "Regular" THEN "InvalidAuthenticationId"
    ELSE IF ~(req.ok /\ req.cred \in auths[h].creds) THEN "WebAuthn"
    ELSE "none"

\* finish_authentication up to the verified result; needs_update() sends it
\* through do_passkey_update before the user lookup
FinishAuthentication(p, h, req) ==
    /\ Accept(p)
    /\ LET r == AuthenticationChecks(h, req)
           l == [NoLoc EXCEPT !.op = "finish_authentication", !.h = h,
                              !.req = req]
       IN IF r = "none"
          THEN /\ pc' = [pc EXCEPT ![p] = IF req.upd THEN "upd_get" ELSE "get_user"]
               /\ loc' = [loc EXCEPT ![p] = [l EXCEPT !.email = auths[h].email]]
          ELSE /\ pc' = [pc EXCEPT ![p] = "done"]
               /\ loc' = [loc EXCEPT ![p] = [l EXCEPT !.err = r]]
    /\ UNCHANGED <<now, users, tags, passkeys, regs, auths, sessions, nextTok,
                   issued>>

\* the result of finish_conditional_ui_authentication's cookie parsing,
\* identify_discoverable_authentication, state and passkey lookups, mode test,
\* library verification and user-id cross-check, without the cross-check
ConditionalChecksNoCrossCheck(h, req) ==
    IF h = 0 THEN "InvalidAuthenticationId"
    ELSE IF req.user = 0 THEN "WebAuthn"
    ELSE IF ~Stored(auths, h) THEN "InvalidAuthenticationId"
    ELSE IF req.cred \notin DOMAIN passkeys THEN "InvalidAuthenticationId"
    ELSE IF auths[h].mode # "Discoverable" THEN "InvalidAuthenticationId"
    ELSE IF ~req.ok THEN "AuthFailed"
    ELSE "none"

\* the result of finish_conditional_ui_authentication's cookie parsing,
\* identify_discoverable_authentication, state and passkey lookups, mode test,
\* library verification and user-id cross-check
ConditionalChecks(h, req) ==
    IF h = 0 THEN "InvalidAuthenticationId"
    ELSE IF req.user = 0 THEN "WebAuthn"
    ELSE IF ~Stored(auths, h) THEN "InvalidAuthenticationId"
    ELSE IF req.cred \notin DOMAIN passkeys THEN "InvalidAuthenticationId"
    ELSE IF auths[h].mode # "Discoverable" THEN "InvalidAuthenticationId"
    ELSE IF ~req.ok THEN "AuthFailed"
    ELSE IF passkeys[req.cred].user_id # req.user THEN "AuthFailed"
    ELSE "none"

\* finish_conditional_ui_authentication up to the cross-checked result
FinishConditional(p, h, req) ==
    /\ Accept(p)
    /\ LET r == ConditionalChecks(h, req)
           l == [NoLoc EXCEPT !.op = "finish_conditional", !.h = h, !.req = req]
       IN IF r = "none"
          THEN /\ pc' = [pc EXCEPT ![p] = IF req.upd THEN "upd_get" ELSE "get_user"]
               /\ loc' = [loc EXCEPT ![p] = [l EXCEPT !.user_id = req.user]]
          ELSE /\ pc' = [pc EXCEPT ![p] = "done"]
               /\ loc' = [loc EXCEPT ![p] = [l EXCEPT !.err = r]]
    /\ UNCHANGED <<now, users, tags, passkeys, regs, auths, sessions, nextTok,
                   issued>>

\* do_passkey_update: get_passkey_by_credential_id, then update_credential,
\* which reports a change when the result's counter is ahead of the stored one
PasskeyUpdateGet(p) ==
    /\ pc[p] = "upd_get"
    /\ IF loc[p].req.cred \notin DOMAIN passkeys
       THEN Fail(p, "NotFound")
       ELSE /\ pc' = [pc EXCEPT ![p] =
                        IF passkeys[loc[p].req.cred].counter < 1
                        THEN "upd_write" ELSE "get_user"]
            /\ UNCHANGED loc
    /\ UNCHANGED <<now, users, tags, passkeys, regs, auths, sessions, nextTok,
                   issued, nreq>>

PasskeyUpdateWriteFirstRow(p) ==
    /\ pc[p] = "upd_write"
    /\ \/ /\ loc[p].req.cred \in DOMAIN passkeys
          /\ UpdatePasskey(1, WithPasskey(PasskeyCredentialUpdateNew, 1))
          /\ pc' = [pc EXCEPT ![p] = "get_user"]
          /\ UNCHANGED loc
       \/ /\ FailBy(p, "InternalServerError", "update_passkey")
          /\ UNCHANGED passkeys
    /\ UNCHANGED <<now, users, tags, regs, auths, sessions, nextTok, issued,
                   nreq>>

\* do_passkey_update: update_passkey(&passkey.id, with_passkey(passkey.passkey))
\* on the row fetched by result.cred_id(), with the material as
\* update_credential(result) left it
PasskeyUpdateWrite(p) ==
    /\ pc[p] = "upd_write"
    /\ \/ /\ loc[p].req.cred \in DOMAIN passkeys
          /\ UpdatePasskey(loc[p].req.cred,
                           WithPasskey(PasskeyCredentialUpdateNew, 1))
          /\ pc' = [pc EXCEPT ![p] = "get_user"]
          /\ UNCHANGED loc
       \/ /\ FailBy(p, "InternalServerError", "update_passkey")
          /\ UNCHANGED passkeys
    /\ UNCHANGED <<now, users, tags, regs, auths, sessions, nextTok, issued,
                   nreq>>

\* finish_authentication: `let Some(email) = auth_state.email else`, then
\* get_user_by_email(&email)
AuthGetUser(p) ==
    /\ pc[p] = "get_user"
    /\ loc[p].op = "finish_authentication"
    /\ IF loc[p].email = "none" THEN Fail(p, "InvalidAuthenticationId")
       ELSE IF \E u \in users : u.email = loc[p].email
       THEN /\ pc' = [pc EXCEPT ![p] = "new_session"]
            /\ loc' = [loc EXCEPT ![p].user_id =
                          (CHOOSE u \in users : u.email = loc[p].email).id]
       ELSE Fail(p, "NotFound")
    /\ UNCHANGED <<now, users, tags, passkeys, regs, auths, sessions, nextTok,
                   issued, nreq>>

AuthNewSessionConsumes(p) ==
    /\ pc[p] = "new_session"
    /\ loc[p].op = "finish_authentication"
    /\ NewSession(p, loc[p].user_id, FALSE, NoHash, "done")
    /\ auths' = [auths EXCEPT ![loc[p].h].mode = "Consumed"]
    /\ UNCHANGED <<users, tags, passkeys, regs, issued, nreq>>

\* finish_authentication: new_session(cookies, db, user.id(), false, None)
AuthNewSession(p) ==
    /\ pc[p] = "new_session"
    /\ loc[p].op = "finish_authentication"
    /\ NewSession(p, loc[p].user_id, FALSE, NoHash, "done")
    /\ UNCHANGED <<users, tags, passkeys, regs, auths, issued, nreq>>

\* finish_conditional_ui_authentication: get_user_by_id(&user_id)
CondGetUser(p) ==
    /\ pc[p] = "get_user"
    /\ loc[p].op = "finish_conditional"
    /\ IF loc[p].user_id \in UserIds
       THEN pc' = [pc EXCEPT ![p] = "new_session"] /\ UNCHANGED loc
       ELSE Fail(p, "NotFound")
    /\ UNCHANGED <<now, users, tags, passkeys, regs, auths, sessions, nextTok,
                   issued, nreq>>

\* finish_conditional_ui_authentication: new_session(cookies, db, user.id(),
\* false, None)
CondNewSession(p) ==
    /\ pc[p] = "new_session"
    /\ loc[p].op = "finish_conditional"
    /\ NewSession(p, loc[p].user_id, FALSE, NoHash, "done")
    /\ UNCHANGED <<users, tags, passkeys, regs, auths, issued, nreq>>

(* --------------------------- specifications --------------------------- *)
\* the store as SqliteClient::open finds it: two registered users, the first
\* holding the admin tag, each with a passkey and the session its last login
\* minted; no ceremony is in progress
InitSessions ==
    [h \in {Blake3(1), Blake3(2)} |->
        [id_hash |-> h, user_id |-> h - MaxSessions, state |-> "Active",
         created_at |-> 0, expires_at |-> SESSION_DURATION,
         is_admin |-> FALSE, parent_id_hash |-> NoHash]]

Init ==
    /\ now = 0
    /\ users = {[id |-> 1, email |-> "a", reg |-> 0],
                [id |-> 2, email |-> "b", reg |-> 0]}
    /\ tags = {1}
    /\ passkeys = [c \in {1, 2} |->
                      [user_id |-> c, counter |-> 0, display_name |-> "none"]]
    /\ regs = << >>
    /\ auths = << >>
    /\ sessions = InitSessions
    /\ nextTok = 3
    /\ issued = {ToHex(Blake3(1)), ToHex(Blake3(2))}
    /\ nreq = 0
    /\ pc = [p \in Procs |-> "idle"]
    /\ loc = [p \in Procs |-> NoLoc]

\* the session lifecycle: concurrent protected requests, no clock movement
\* beyond the reads inside new_session
NextSession ==
    \/ \E p \in Procs, c \in Cookies : Reject(p, c)
    \/ \E p \in Procs, c \in Cookies : GetSession(p, c)
    \/ \E p \in Procs, c \in Cookies : LogoutBegin(p, c)
    \/ \E p \in Procs : LogoutGet(p)
    \/ \E p \in Procs : LogoutUpdate(p)
    \/ \E p \in Procs, c \in Cookies : UpgradeBegin(p, c)
    \/ \E p \in Procs : UpgradeCheckTags(p)
    \/ \E p \in Procs : UpgradeMint(p)
    \/ \E p \in Procs : UpgradeSupersede(p)
    \/ \E p \in Procs, c \in Cookies : DowngradeBegin(p, c)
    \/ \E p \in Procs : DowngradeGetParent(p)
    \/ \E p \in Procs : DowngradeMint(p)
    \/ \E p \in Procs : DowngradeSupersede(p)
    \/ \E p \in Procs : Return(p)

SpecSession == Init /\ [][NextSession]_vars

\* registration: concurrent start and finish requests, no clock movement
\* beyond the reads inside new_session
NextRegistration ==
    \/ \E p \in Procs, e \in Emails : StartRegistration(p, e)
    \/ \E p \in Procs, h \in 0..MaxRegs, e \in Emails, ok \in BOOLEAN :
           FinishRegistration(p, h, e, ok)
    \/ \E p \in Procs : RegCreateUser(p)
    \/ \E p \in Procs : RegCreatePasskey(p)
    \/ \E p \in Procs : RegDeleteUser(p)
    \/ \E p \in Procs : RegNewSession(p)
    \/ \E p \in Procs : Return(p)

SpecRegistration == Init /\ [][NextRegistration]_vars

\* the ceremonies of every mode, served one request at a time in the first
\* slot while the clock runs
NextCeremony ==
    \/ TickSub
    \/ TickTtl
    \/ \E e \in Emails : StartRegistration(1, e)
    \/ \E h \in 0..MaxRegs, e \in Emails, ok \in BOOLEAN :
           FinishRegistration(1, h, e, ok)
    \/ RegCreateUser(1)
    \/ RegCreatePasskey(1)
    \/ RegDeleteUser(1)
    \/ RegNewSession(1)
    \/ \E e \in Emails : StartAuthentication(1, e)
    \/ StartConditional(1)
    \/ \E h \in 0..MaxAuths, req \in Requests : FinishAuthentication(1, h, req)
    \/ \E h \in 0..MaxAuths, req \in Requests : FinishConditional(1, h, req)
    \/ PasskeyUpdateGet(1)
    \/ PasskeyUpdateWrite(1)
    \/ AuthGetUser(1)
    \/ AuthNewSession(1)
    \/ CondGetUser(1)
    \/ CondNewSession(1)
    \/ Return(1)

SpecCeremony == Init /\ [][NextCeremony]_vars

\* discoverable authentication, served one request at a time in the first
\* slot while the clock runs
NextDiscoverable ==
    \/ TickSub
    \/ TickTtl
    \/ StartConditional(1)
    \/ \E h \in 0..MaxAuths, req \in Requests : FinishConditional(1, h, req)
    \/ PasskeyUpdateGet(1)
    \/ PasskeyUpdateWrite(1)
    \/ CondGetUser(1)
    \/ CondNewSession(1)
    \/ Return(1)

SpecDiscoverable == Init /\ [][NextDiscoverable]_vars

\* targeted and discoverable authentication, served one request at a time in
\* the first slot while the clock runs past the ceremonies' expiry
NextAuthentication ==
    \/ TickTtl
    \/ \E e \in Emails : StartAuthentication(1, e)
    \/ StartConditional(1)
    \/ \E h \in 0..MaxAuths, req \in Requests : FinishAuthentication(1, h, req)
    \/ \E h \in 0..MaxAuths, req \in Requests : FinishConditional(1, h, req)
    \/ PasskeyUpdateGet(1)
    \/ PasskeyUpdateWrite(1)
    \/ AuthGetUser(1)
    \/ AuthNewSession(1)
    \/ CondGetUser(1)
    \/ CondNewSession(1)
    \/ Return(1)

SpecAuthentication == Init /\ [][NextAuthentication]_vars

\* validation against the clock: protected requests served one at a time in
\* the first slot while the clock runs up to and past a session's expiry
NextClock ==
    \/ TickSub
    \/ TickDay
    \/ \E c \in Cookies : Reject(1, c)
    \/ \E c \in Cookies : GetSession(1, c)
    \/ \E c \in Cookies : LogoutBegin(1, c)
    \/ LogoutGet(1)
    \/ LogoutUpdate(1)
    \/ \E c \in Cookies : UpgradeBegin(1, c)
    \/ UpgradeCheckTags(1)
    \/ UpgradeMint(1)
    \/ UpgradeSupersede(1)
    \/ Return(1)

SpecClock == Init /\ [][NextClock]_vars

\* every operation of the server, the administrator and the clock
(* ------------------------- store client calls ------------------------ *)
\* the sessions a client of the store can pass to create_session, with a
\* fresh id_hash and created now: a plain one, Active, not elevated and
\* without parent, and for any stored parent one that differs from it in
\* every field
NewSessions ==
    { [id_hash |-> Blake3(nextTok), user_id |-> 1, state |-> "Active",
       created_at |-> now, expires_at |-> now + SESSION_DURATION,
       is_admin |-> FALSE, parent_id_hash |-> NoHash] }
    \cup
    { [id_hash |-> Blake3(nextTok), user_id |-> 2, state |-> "LoggedOut",
       created_at |-> now, expires_at |-> now + SESSION_DURATION + 1,
       is_admin |-> TRUE, parent_id_hash |-> h] : h \in DOMAIN sessions }

\* the updates a client of the store can pass to update_session: none, one
\* or both of a state and an expires_at that is not a whole second
SessionUpdates ==
    LET t == Timestamp(now) + 2 * SESSION_DURATION + 1 IN
    {SessionUpdateNew, WithExpiresAt(SessionUpdateNew, t)}
    \cup {WithState(SessionUpdateNew, st) : st \in {"LoggedOut", "Superseded"}}
    \cup {WithState(WithExpiresAt(SessionUpdateNew, t), st) :
             st \in {"LoggedOut", "Superseded"}}

\* a client calls create_session(&session)
StoreCreateSession(p, s) ==
    /\ Accept(p)
    /\ nextTok <= MaxSessions
    /\ \/ /\ CreateSession(s)
          /\ nextTok' = nextTok + 1
          /\ pc' = [pc EXCEPT ![p] = "store_get"]
          /\ loc' = [loc EXCEPT ![p] =
                        [NoLoc EXCEPT !.op = "create_session", !.session = s]]
       \/ /\ pc' = [pc EXCEPT ![p] = "done"]
          /\ loc' = [loc EXCEPT ![p] =
                        [NoLoc EXCEPT !.op = "create_session", !.session = s,
                                      !.err = "Other",
                                      !.cause = "create_session"]]
          /\ UNCHANGED <<sessions, nextTok>>
    /\ UNCHANGED <<now, users, tags, passkeys, regs, auths, issued>>

\* and then get_session_by_id_hash(&session.id_hash)
StoreGetSession(p) ==
    /\ pc[p] = "store_get"
    /\ pc' = [pc EXCEPT ![p] = "done"]
    /\ loc' = [loc EXCEPT
                  ![p].parent = GetSessionByIdHash(loc[p].session.id_hash).session,
                  ![p].err = GetSessionByIdHash(loc[p].session.id_hash).err]
    /\ UNCHANGED <<now, users, tags, passkeys, regs, auths, sessions, nextTok,
                   issued, nreq>>

\* a client calls update_session(&id_hash, &update): EmptyUpdate for an update
\* without fields, NotFound for an id_hash without a row, the updated row
\* otherwise
StoreUpdateSession(p, h, upd) ==
    /\ Accept(p)
    /\ pc' = [pc EXCEPT ![p] = "done"]
    /\ \/ /\ SessionUpdateIsEmpty(upd)
          /\ loc' = [loc EXCEPT ![p] =
                        [NoLoc EXCEPT !.op = "update_session", !.h = h,
                                      !.upd = upd, !.err = "EmptyUpdate"]]
          /\ UNCHANGED sessions
       \/ /\ ~SessionUpdateIsEmpty(upd)
          /\ h \notin DOMAIN sessions
          /\ loc' = [loc EXCEPT ![p] =
                        [NoLoc EXCEPT !.op = "update_session", !.h = h,
                                      !.upd = upd, !.err = "NotFound"]]
          /\ UNCHANGED sessions
       \/ /\ ~SessionUpdateIsEmpty(upd)
          /\ h \in DOMAIN sessions
          /\ UpdateSession(h, upd)
          /\ loc' = [loc EXCEPT ![p] =
                        [NoLoc EXCEPT !.op = "update_session", !.h = h,
                                      !.upd = upd, !.session = sessions'[h]]]
       \/ /\ ~SessionUpdateIsEmpty(upd)
          /\ loc' = [loc EXCEPT ![p] =
                        [NoLoc EXCEPT !.op = "update_session", !.h = h,
                                      !.upd = upd, !.err = "Other",
                                      !.cause = "update_session"]]
          /\ UNCHANGED sessions
    /\ UNCHANGED <<now, users, tags, passkeys, regs, auths, nextTok, issued>>

\* the store's session calls made one at a time by one client, as the
\* store's tests make them, while the clock runs within the second
NextStore ==
    \/ TickSub
    \/ \E s \in NewSessions : StoreCreateSession(1, s)
    \/ StoreGetSession(1)
    \/ \E h \in DOMAIN sessions \cup {NeverMinted}, upd \in SessionUpdates :
          StoreUpdateSession(1, h, upd)
    \/ Return(1)

SpecStore == Init /\ [][NextStore]_vars

\* the ceremonies served one at a time in the first slot while the clock
\* runs and the reaper runs; the reaper's schedule lets a run that has rows
\* to delete happen in the end
NextReaper ==
    \/ NextCeremony
    \/ ReaperRun

SpecReaper == Init /\ [][NextReaper]_vars /\ WF_vars(ReaperRun)

\* elevation: protected requests served one at a time in the first slot,
\* requests to an admin-only handler among them, while the admin tag is
\* given to and taken from users
NextAdmin ==
    \/ \E c \in Cookies : Reject(1, c)
    \/ \E jar \in Jars : AdminRequest(1, jar)
    \/ \E c \in Cookies : UpgradeBegin(1, c)
    \/ UpgradeCheckTags(1)
    \/ UpgradeMint(1)
    \/ UpgradeSupersede(1)
    \/ \E c \in Cookies : DowngradeBegin(1, c)
    \/ DowngradeGetParent(1)
    \/ DowngradeMint(1)
    \/ DowngradeSupersede(1)
    \/ Return(1)
    \/ \E u \in UserIds : AddTag(u)
    \/ \E u \in UserIds : RemoveTag(u)

SpecAdmin == Init /\ [][NextAdmin]_vars

\* targeted authentication, served one request at a time in the first slot,
\* while users' emails are changed in the store
NextEmail ==
    \/ \E e \in Emails : StartAuthentication(1, e)
    \/ \E h \in 0..MaxAuths, req \in Requests : FinishAuthentication(1, h, req)
    \/ PasskeyUpdateGet(1)
    \/ PasskeyUpdateWrite(1)
    \/ AuthGetUser(1)
    \/ AuthNewSession(1)
    \/ Return(1)
    \/ \E u \in UserIds, e \in Emails : UpdateUser(u, e)

SpecEmail == Init /\ [][NextEmail]_vars

\* every handler that mints a session, served one request at a time in the
\* first slot: the three finishes with their starts, upgrade and downgrade
NextMint ==
    \/ \E e \in Emails : StartRegistration(1, e)
    \/ \E h \in 0..MaxRegs, e \in Emails, ok \in BOOLEAN :
           FinishRegistration(1, h, e, ok)
    \/ RegCreateUser(1)
    \/ RegCreatePasskey(1)
    \/ RegDeleteUser(1)
    \/ RegNewSession(1)
    \/ \E e \in Emails : StartAuthentication(1, e)
    \/ StartConditional(1)
    \/ \E h \in 0..MaxAuths, req \in Requests : FinishAuthentication(1, h, req)
    \/ \E h \in 0..MaxAuths, req \in Requests : FinishConditional(1, h, req)
    \/ PasskeyUpdateGet(1)
    \/ PasskeyUpdateWrite(1)
    \/ AuthGetUser(1)
    \/ AuthNewSession(1)
    \/ CondGetUser(1)
    \/ CondNewSession(1)
    \/ \E c \in Cookies : Reject(1, c)
    \/ \E c \in Cookies : UpgradeBegin(1, c)
    \/ UpgradeCheckTags(1)
    \/ UpgradeMint(1)
    \/ UpgradeSupersede(1)
    \/ \E c \in Cookies : DowngradeBegin(1, c)
    \/ DowngradeGetParent(1)
    \/ DowngradeMint(1)
    \/ DowngradeSupersede(1)
    \/ Return(1)

SpecMint == Init /\ [][NextMint]_vars

Next ==
    \/ NextSession
    \/ NextAdmin
    \/ NextRegistration
    \/ NextCeremony
    \/ NextDiscoverable
    \/ NextAuthentication
    \/ NextClock
    \/ NextStore
    \/ NextReaper
    \/ NextEmail
    \/ NextMint

Spec == Init /\ [][Next]_vars

(* ------------------------------ properties ---------------------------- *)
\* what a request that arrives in this step presents and is answered
Arrives(p) == pc[p] = "idle" /\ pc'[p] # "idle"

\* h names a stored session that is Active and not past its expiry at time t
Validates(ss, t, h) ==
    h \in DOMAIN ss /\ ss[h].state = "Active" /\ ss[h].expires_at >= t

\* C1: a session whose stored state is Superseded, LoggedOut or Revoked is
\* never set back to Active by any step of any request, and every request
\* that presents it is rejected with SessionExpired
C1_SupersessionMonotone ==
    [][/\ \A h \in DOMAIN sessions :
            sessions[h].state \in Terminal =>
                h \in DOMAIN sessions' /\ sessions'[h].state # "Active"
       /\ \A p \in Procs :
            ( /\ Arrives(p)
              /\ FromHex(loc'[p].cookie) \in DOMAIN sessions
              /\ sessions[FromHex(loc'[p].cookie)].state \in Terminal )
            => ( /\ pc'[p] = "done"
                 /\ loc'[p].err = "SessionExpired"
                 /\ loc'[p].session = NoSession )]_vars

\* C1 witness: a request presenting a superseded or logged-out session has
\* been rejected with SessionExpired
C1_Witness ==
    \E p \in Procs :
        /\ pc[p] = "done"
        /\ loc[p].err = "SessionExpired"
        /\ FromHex(loc[p].cookie) \in DOMAIN sessions
        /\ sessions[FromHex(loc[p].cookie)].state \in Terminal

\* C2: the value a client must present is never equal to anything in the
\* stored session record: no response hands out a cookie whose value is a
\* stored id_hash, no accepted request presented a stored id_hash, and a
\* bearer that was never minted is never accepted
C2_TokenOneWay ==
    \A p \in Procs :
        /\ ( pc[p] = "done" /\ loc[p].err = "none" /\ loc[p].new # NoHash )
           => FromHex(ToHex(loc[p].new)) \notin DOMAIN sessions
        /\ loc[p].session # NoSession
           => /\ FromHex(loc[p].cookie) \notin DOMAIN sessions
              /\ loc[p].cookie # ToHex(NeverMinted)

C8_UpgradeNeedsTag ==
    [][\A p \in Procs :
        /\ ( /\ pc[p] = "up_tags" /\ pc'[p] # "up_tags"
             /\ loc[p].session.user_id \notin tags )
           => /\ pc'[p] = "done"
              /\ loc'[p].err = "NotAdmin"
              /\ loc'[p].new = NoHash
              /\ sessions' = sessions
              /\ nextTok' = nextTok
        /\ ( loc[p].op = "upgrade" /\ loc[p].session.user_id \notin tags )
           => loc[p].new = NoHash /\ pc[p] \in {"up_tags", "done"}]_vars

\* C8 witness: an upgrade by a user without the tag was refused with NotAdmin
\* and the session it presented is still Active
C8_Witness ==
    \E p \in Procs :
        /\ pc[p] = "done" /\ loc[p].op = "upgrade" /\ loc[p].err = "NotAdmin"
        /\ loc[p].session.user_id \notin tags
        /\ sessions[loc[p].session.id_hash].state = "Active"
        /\ DOMAIN sessions = DOMAIN InitSessions

\* the operations that finish a ceremony
FinishOps == {"finish_registration", "finish_authentication", "finish_conditional"}

\* the stored state of the ceremony a finish request names, when the handle
\* names one of the request's mode
CeremonyRows(op, h) ==
    IF op = "finish_registration"
    THEN {regs[i] : i \in {j \in {h} \cap DOMAIN regs : ~regs[j].reaped}}
    ELSE {auths[i] : i \in {j \in {h} \cap DOMAIN auths :
                               /\ ~auths[j].reaped
                               /\ auths[j].mode =
                                     IF op = "finish_authentication"
                                     THEN "Regular" ELSE "Discoverable"}}

\* the response of a finish request is one the handler would accept on a
\* ceremony that has not expired
WellFormed(op, l) ==
    /\ l.req.ok
    /\ op = "finish_authentication" => l.req.cred \in auths[l.h].creds
    /\ op = "finish_conditional"
       => /\ l.req.cred \in DOMAIN passkeys
          /\ l.req.user # 0
          /\ passkeys[l.req.cred].user_id = l.req.user

\* C3: in every mode, a finish request that arrives more than five minutes
\* after the instant T its ceremony state was created ends with SessionExpired
\* and creates no user, credential update or session; one that arrives less
\* than five minutes after T is not answered SessionExpired
C3_CeremonyExpiry ==
    [][\A p \in Procs :
        ( Arrives(p) /\ loc'[p].op \in FinishOps )
        => \A row \in CeremonyRows(loc'[p].op, loc'[p].h) :
             /\ ( now > row.stamped + CEREMONY_TTL
                  /\ WellFormed(loc'[p].op, loc'[p]) )
                => /\ pc'[p] = "done"
                   /\ loc'[p].err = "SessionExpired"
                   /\ users' = users /\ passkeys' = passkeys
                   /\ sessions' = sessions
             /\ now < row.stamped + CEREMONY_TTL
                => loc'[p].err # "SessionExpired"]_vars

\* C4: a discoverable finish whose response claims a user other than the
\* owner of the credential it names ends with AuthFailed whether or not the
\* library verification succeeds, mints no session and updates no credential;
\* a discoverable finish past its checks works for the credential's owner
C4_DiscoverableCrossCheck ==
    [][\A p \in Procs :
        /\ ( /\ Arrives(p) /\ loc'[p].op = "finish_conditional"
             /\ CeremonyRows("finish_conditional", loc'[p].h) # {}
             /\ loc'[p].req.user # 0
             /\ loc'[p].req.cred \in DOMAIN passkeys
             /\ passkeys[loc'[p].req.cred].user_id # loc'[p].req.user )
           => /\ pc'[p] = "done"
              /\ loc'[p].err = "AuthFailed"
              /\ loc'[p].new = NoHash
              /\ sessions' = sessions /\ nextTok' = nextTok
              /\ passkeys' = passkeys
        /\ ( loc[p].op = "finish_conditional" /\ pc[p] # "done" )
           => /\ passkeys[loc[p].req.cred].user_id = loc[p].req.user
              /\ loc[p].user_id = loc[p].req.user]_vars

\* C4 witness: a discoverable finish whose response verified but claimed a
\* user other than the credential's owner was refused with AuthFailed
C4_Witness ==
    \E p \in Procs :
        /\ pc[p] = "done" /\ loc[p].op = "finish_conditional"
        /\ loc[p].err = "AuthFailed"
        /\ loc[p].req.ok
        /\ CeremonyRows("finish_conditional", loc[p].h) # {}
        /\ loc[p].req.cred \in DOMAIN passkeys
        /\ loc[p].req.user \in UserIds
        /\ passkeys[loc[p].req.cred].user_id # loc[p].req.user

\* C5: when create_passkey fails after create_user succeeded the handler goes
\* on to delete the user and mints nothing; whether the delete succeeds
\* (the user row is gone) or fails (the row stays), the request ends with the
\* create_passkey error and without a session
C5_RegistrationCompensation ==
    [][\A p \in Procs :
        /\ ( /\ pc[p] = "reg_create_passkey" /\ pc'[p] # "reg_create_passkey"
             /\ passkeys' = passkeys )
           => /\ pc'[p] = "reg_delete_user"
              /\ \E u \in users : u.id = loc[p].user_id
              /\ sessions' = sessions
        /\ ( pc[p] = "reg_delete_user" /\ pc'[p] # "reg_delete_user" )
           => /\ pc'[p] = "done"
              /\ loc'[p].err = "InternalServerError"
              /\ loc'[p].cause = "create_passkey"
              /\ loc'[p].new = NoHash
              /\ sessions' = sessions /\ nextTok' = nextTok
              /\ \/ users' = users
                 \/ /\ users' \subseteq users
                    /\ ~\E u \in users' : u.id = loc[p].user_id]_vars

\* C5 witness: a finish_registration whose create_passkey failed has ended
\* with that error, without a session, and its user row is deleted
C5_Witness ==
    \E p \in Procs :
        /\ pc[p] = "done" /\ loc[p].op = "finish_registration"
        /\ loc[p].err = "InternalServerError"
        /\ loc[p].cause = "create_passkey"
        /\ loc[p].new = NoHash
        /\ ~\E u \in users : u.id = loc[p].user_id

\* the bearer of an arriving request names a stored session
Named(c) == c.kind = "hex" /\ FromHex(c) \in DOMAIN sessions

\* C9 as stated: for any presented bearer the request is answered with the
\* stored session exactly when a session with the matching id_hash exists, is
\* Active and has expires_at >= now, with NotLoggedIn when no such session
\* exists, and with SessionExpired when it exists but is not Active or has
\* expires_at < now
C9_ValidateAnyBearer ==
    [][\A p \in Procs :
        ( Arrives(p) /\ loc'[p].op \in {"rejected", "get_session", "logout",
                                        "upgrade", "downgrade"} )
        => LET c == loc'[p].cookie
           IN IF ~Named(c)
              THEN loc'[p].err = "NotLoggedIn" /\ loc'[p].session = NoSession
              ELSE IF /\ sessions[FromHex(c)].state = "Active"
                      /\ sessions[FromHex(c)].expires_at >= now
              THEN loc'[p].err = "none" /\ loc'[p].session = sessions[FromHex(c)]
              ELSE loc'[p].err = "SessionExpired" /\ loc'[p].session = NoSession]_vars

\* C9 amended: a request without a bearer is answered NotLoggedIn and one
\* whose bearer is not the hex text of 32 bytes InvalidSessionId; for a
\* well-formed bearer the request is answered with the stored session exactly
\* when a session with the id_hash it names exists, is Active and has
\* expires_at >= now, with NotLoggedIn when none exists, and with
\* SessionExpired when it exists but is not Active or has expires_at < now
C9_ValidateResult ==
    [][\A p \in Procs :
        ( Arrives(p) /\ loc'[p].op \in {"rejected", "get_session", "logout",
                                        "upgrade", "downgrade"} )
        => LET c == loc'[p].cookie
           IN IF c.kind = "bad"
              THEN loc'[p].err = "InvalidSessionId" /\ loc'[p].session = NoSession
              ELSE IF ~Named(c)
              THEN loc'[p].err = "NotLoggedIn" /\ loc'[p].session = NoSession
              ELSE IF /\ sessions[FromHex(c)].state = "Active"
                      /\ sessions[FromHex(c)].expires_at >= now
              THEN loc'[p].err = "none" /\ loc'[p].session = sessions[FromHex(c)]
              ELSE loc'[p].err = "SessionExpired" /\ loc'[p].session = NoSession]_vars

\* C9 witness: a request was accepted at the very instant its session
\* expires, while another session, Active but past its expiry, exists
C9_Witness ==
    \E p \in Procs :
        /\ pc[p] # "idle" /\ loc[p].err = "none"
        /\ loc[p].session # NoSession
        /\ loc[p].session.expires_at = now
        /\ \E h \in DOMAIN sessions :
              sessions[h].state # "Active" \/ sessions[h].expires_at < now

\* C10 as stated: when a finish_registration executes create_user while
\* another finish of the same ceremony, having created its user, is still in
\* flight, that create_user succeeds as well unless the store itself fails
C10_BothCreateUser ==
    [][\A p, q \in Procs :
        ( /\ p # q
          /\ loc[p].op = "finish_registration" /\ loc[q].op = "finish_registration"
          /\ loc[p].h = loc[q].h
          /\ pc[p] \in {"reg_create_passkey", "reg_new_session"}
          /\ pc[q] = "reg_create_user" /\ pc'[q] # "reg_create_user"
          /\ loc'[q].cause # "create_user" )
        => pc'[q] = "reg_create_passkey"]_vars

\* C10 amended: two concurrent finish_registration calls on one ceremony can
\* both pass the checks, but both insert the ceremony's one user_id: a
\* create_user that finds the id or the email taken fails with a uniqueness
\* violation and inserts nothing, so no ceremony ever has two user rows
C10_OneUserPerCeremony ==
    [][/\ \A h \in DOMAIN regs' :
            Cardinality({u \in users' : u.reg = h}) <= 1
       /\ \A q \in Procs :
            ( /\ pc[q] = "reg_create_user" /\ pc'[q] # "reg_create_user"
              /\ \E u \in users : u.id = loc[q].user_id \/ u.email = loc[q].email )
            => /\ pc'[q] = "done"
               /\ loc'[q].err = "InternalServerError"
               /\ users' = users]_vars

\* C10 witness: two finishes of one ceremony were in flight past the checks
\* together; the first created the user and the second was refused with a
\* uniqueness violation on the id alone, its email being free
C10_Witness ==
    \E p, q \in Procs :
        /\ p # q
        /\ loc[p].op = "finish_registration" /\ loc[q].op = "finish_registration"
        /\ loc[p].h = loc[q].h
        /\ pc[p] = "reg_create_passkey"
        /\ pc[q] = "done"
        /\ loc[q].cause = "create_user.UniquenessViolation"
        /\ ~\E u \in users : u.email = loc[q].email

\* the ceremony state row is within its five minutes, as the finish tests it
Unexpired(row) == row.created_at >= now - CEREMONY_TTL

\* C11: no step of a finish writes the ceremony state rows (only a start
\* appends one), and a finish that arrives with a still-unexpired handle of
\* its own mode and a valid client response passes the checks whatever
\* earlier finishes did with the handle; the session it then mints is a new
\* Active row beside the rows already stored
C11_CeremonyReplay ==
    [][/\ auths' # auths
          => \E p \in Procs :
                /\ Arrives(p)
                /\ loc'[p].op \in {"start_authentication", "start_conditional"}
                /\ \A i \in DOMAIN auths : auths'[i] = auths[i]
       /\ \A p \in Procs :
            /\ ( /\ Arrives(p)
                 /\ loc'[p].op = "finish_authentication"
                 /\ loc'[p].h \in DOMAIN auths
                 /\ auths[loc'[p].h].mode = "Regular"
                 /\ Unexpired(auths[loc'[p].h])
                 /\ loc'[p].req.ok
                 /\ loc'[p].req.cred \in auths[loc'[p].h].creds )
               => loc'[p].err = "none" /\ pc'[p] # "done"
            /\ ( /\ Arrives(p)
                 /\ loc'[p].op = "finish_conditional"
                 /\ loc'[p].h \in DOMAIN auths
                 /\ auths[loc'[p].h].mode = "Discoverable"
                 /\ Unexpired(auths[loc'[p].h])
                 /\ loc'[p].req.ok
                 /\ loc'[p].req.cred \in DOMAIN passkeys
                 /\ loc'[p].req.user # 0
                 /\ passkeys[loc'[p].req.cred].user_id = loc'[p].req.user )
               => loc'[p].err = "none" /\ pc'[p] # "done"
            /\ ( /\ pc[p] = "new_session"
                 /\ loc[p].op \in {"finish_authentication", "finish_conditional"}
                 /\ pc'[p] = "done" /\ loc'[p].err = "none" )
               => /\ loc'[p].new \notin DOMAIN sessions
                  /\ loc'[p].new \in DOMAIN sessions'
                  /\ sessions'[loc'[p].new].state = "Active"
                  /\ \A h \in DOMAIN sessions : sessions'[h] = sessions[h]]_vars

\* C11 witness: the one targeted ceremony of the run was finished twice; the
\* session of the first finish is stored and Active when the second finish
\* has minted another Active session from the same handle
C11_Witness ==
    \E p \in Procs :
        /\ pc[p] = "done" /\ loc[p].err = "none"
        /\ loc[p].op = "finish_authentication"
        /\ Len(auths) = 1 /\ loc[p].h = 1 /\ auths[1].mode = "Regular"
        /\ Unexpired(auths[1])
        /\ loc[p].new \in DOMAIN sessions
        /\ sessions[loc[p].new].state = "Active"
        /\ \E h \in DOMAIN sessions \ (DOMAIN InitSessions \cup {loc[p].new}) :
              /\ sessions[h].state = "Active"
              /\ sessions[h].user_id = loc[p].user_id

\* C12: a downgrade request accepted for a session without parent_id_hash
\* ends with DowngradeImpossible in its first step, which writes no session
\* row and draws no id, and the slot takes no further step but the return of
\* the response
C12_DowngradeNeedsParent ==
    [][\A p \in Procs :
        /\ ( /\ pc[p] = "down_parent"
             /\ loc[p].session.parent_id_hash = NoHash
             /\ pc'[p] # pc[p] )
           => /\ pc'[p] = "done"
              /\ loc'[p].err = "DowngradeImpossible"
              /\ loc'[p].new = NoHash
              /\ sessions' = sessions
              /\ nextTok' = nextTok
        /\ ( /\ pc[p] \in {"down_mint", "down_supersede"}
             /\ loc[p].op = "downgrade" )
           => loc[p].session.parent_id_hash # NoHash]_vars

\* C12 witness: a downgrade of a parentless session was refused and the
\* session is still Active
C12_Witness ==
    \E p \in Procs :
        /\ pc[p] = "done"
        /\ loc[p].op = "downgrade"
        /\ loc[p].err = "DowngradeImpossible"
        /\ loc[p].session.parent_id_hash = NoHash
        /\ sessions[loc[p].session.id_hash].state = "Active"

C14_SessionImmutable ==
    [][\A h \in DOMAIN sessions :
        /\ h \in DOMAIN sessions'
        /\ sessions'[h] = [sessions[h] EXCEPT !.state = sessions'[h].state]
        /\ sessions'[h].id_hash = h]_vars

\* C14 witness: handlers have written rows (one is LoggedOut, one
\* Superseded) and minted a row, and the rows the store started with still
\* differ from what they were in nothing but state
C14_Witness ==
    /\ \E h \in DOMAIN sessions : sessions[h].state = "LoggedOut"
    /\ \E h \in DOMAIN sessions : sessions[h].state = "Superseded"
    /\ DOMAIN sessions # DOMAIN InitSessions
    /\ \A h \in DOMAIN InitSessions :
          sessions[h] = [InitSessions[h] EXCEPT !.state = sessions[h].state]

\* C15: every row a mint stores is Active, carries the user id, is_admin flag
\* and parent the handler gave new_session (upgrade: the session's user,
\* TRUE, the session; downgrade: the parent's user and flag, the session),
\* and has expires_at exactly 24 hours after created_at
C15_MintedShape ==
    [][\A p \in Procs :
        ( /\ pc[p] \in {"up_mint", "down_mint"}
          /\ pc'[p] \in {"up_supersede", "down_supersede"} )
        => LET row == sessions'[loc'[p].new]
               from == IF pc[p] = "up_mint" THEN loc[p].session ELSE loc[p].parent
           IN /\ loc'[p].new \notin DOMAIN sessions
              /\ row.state = "Active"
              /\ row.user_id = from.user_id
              /\ row.is_admin = (pc[p] = "up_mint" \/ from.is_admin)
              /\ row.parent_id_hash = loc[p].session.id_hash
              /\ row.expires_at = row.created_at + SESSION_DURATION]_vars

\* the errors the checks of the two authentication finishes give, in the
\* current store, to requests that carry a well-formed handle and a response
\* that names a user handle
FinishFailures ==
    ( {AuthenticationChecks(h, r) : h \in 1..MaxAuths, r \in Requests}
      \cup {ConditionalChecks(h, r) :
                h \in 1..MaxAuths, r \in {q \in Requests : q.user # 0}} )
    \ {"none"}

\* C16: a finish of either authentication mode that fails on its checks
\* (unknown handle, expired ceremony, wrong mode, unknown credential, failed
\* verification, user-id mismatch) is answered with the status every other
\* failing finish would be answered with in the same store, whatever handle,
\* credential id or response it carries
C16_GenericFailure ==
    [][\A p \in Procs :
        ( /\ Arrives(p)
          /\ loc'[p].op \in {"finish_authentication", "finish_conditional"}
          /\ loc'[p].h # 0
          /\ loc'[p].op = "finish_conditional" => loc'[p].req.user # 0
          /\ loc'[p].err # "none" )
        => \A e \in FinishFailures : StatusCode(e) = StatusCode(loc'[p].err)]_vars

\* C17 as stated: a targeted finish on a state tagged Discoverable and a
\* discoverable finish on a state tagged Regular both end at once with
\* InvalidAuthenticationId
C17_WrongModeInvalidHandle ==
    [][\A p \in Procs :
        ( /\ Arrives(p)
          /\ loc'[p].h \in DOMAIN auths
          /\ \/ /\ loc'[p].op = "finish_authentication"
                /\ auths[loc'[p].h].mode = "Discoverable"
             \/ /\ loc'[p].op = "finish_conditional"
                /\ auths[loc'[p].h].mode = "Regular" )
        => pc'[p] = "done" /\ loc'[p].err = "InvalidAuthenticationId"]_vars

\* C17 amended: both end at once, before verification, credential update and
\* mint, whatever the response's verification would give: with
\* InvalidAuthenticationId, except that a targeted finish on an expired state
\* ends with SessionExpired and a discoverable finish whose response names
\* no user handle with the library's error
C17_ModeSeparation ==
    [][\A p \in Procs :
        ( Arrives(p) /\ loc'[p].h \in DOMAIN auths )
        => /\ ( /\ loc'[p].op = "finish_authentication"
                /\ auths[loc'[p].h].mode = "Discoverable" )
              => /\ pc'[p] = "done"
                 /\ loc'[p].err = IF Unexpired(auths[loc'[p].h])
                                   THEN "InvalidAuthenticationId"
                                   ELSE "SessionExpired"
                 /\ UNCHANGED <<passkeys, sessions, auths, nextTok>>
           /\ ( /\ loc'[p].op = "finish_conditional"
                /\ auths[loc'[p].h].mode = "Regular" )
              => /\ pc'[p] = "done"
                 /\ loc'[p].err = IF loc'[p].req.user # 0
                                   THEN "InvalidAuthenticationId"
                                   ELSE "WebAuthn"
                 /\ UNCHANGED <<passkeys, sessions, auths, nextTok>>]_vars

\* C17 witness: a discoverable finish carrying a response that would verify,
\* for a stored credential of the user it names, was refused on a state
\* tagged Regular
C17_Witness ==
    \E p \in Procs :
        /\ pc[p] = "done" /\ loc[p].op = "finish_conditional"
        /\ loc[p].h \in DOMAIN auths /\ auths[loc[p].h].mode = "Regular"
        /\ loc[p].req.ok
        /\ loc[p].req.cred \in DOMAIN passkeys
        /\ passkeys[loc[p].req.cred].user_id = loc[p].req.user
        /\ loc[p].err = "InvalidAuthenticationId"
        /\ loc[p].new = NoHash

\* C18 as stated: a targeted start for an email no user has ends, unless the
\* store itself fails, with UserNotFound raised by the credential load
\* get_passkeys_by_user_email, and stores no ceremony state
C18_UnknownEmailFromLoad ==
    [][\A p \in Procs :
        ( /\ Arrives(p)
          /\ loc'[p].op = "start_authentication"
          /\ ~\E u \in users : u.email = loc'[p].email
          /\ loc'[p].err # "InternalServerError" )
        => /\ pc'[p] = "done"
           /\ loc'[p].err = "UserNotFound"
           /\ loc'[p].cause = "get_passkeys_by_user_email"
           /\ auths' = auths]_vars

\* C18 amended: such a start ends, unless the store itself fails, with
\* UserNotFound raised by create_passkey_authentication, the insert of the
\* ceremony state (the credential load yields no credential and no error),
\* and stores no ceremony state
C18_UnknownEmail ==
    [][\A p \in Procs :
        ( /\ Arrives(p)
          /\ loc'[p].op = "start_authentication"
          /\ ~\E u \in users : u.email = loc'[p].email
          /\ loc'[p].err # "InternalServerError" )
        => /\ pc'[p] = "done"
           /\ loc'[p].err = "UserNotFound"
           /\ loc'[p].cause = "create_passkey_authentication"
           /\ PasskeysByEmail(loc'[p].email) = {}
           /\ loc'[p].h = 0
           /\ auths' = auths]_vars

\* C18 witness: a targeted start for an email no user has was answered
\* UserNotFound and no ceremony state is stored
C18_Witness ==
    \E p \in Procs :
        /\ pc[p] = "done" /\ loc[p].op = "start_authentication"
        /\ ~\E u \in users : u.email = loc[p].email
        /\ loc[p].err = "UserNotFound"
        /\ auths = << >>

\* C19: a finish_registration whose well-formed handle matches no stored
\* registration state ends at once with InvalidRegistrationId, the error of a
\* missing or malformed handle, and writes nothing to the store
C19_UnknownRegistrationHandle ==
    [][\A p \in Procs :
        ( /\ Arrives(p)
          /\ loc'[p].op = "finish_registration"
          /\ loc'[p].h # 0
          /\ loc'[p].h \notin DOMAIN regs )
        => /\ pc'[p] = "done"
           /\ loc'[p].err = "InvalidRegistrationId"
           /\ UNCHANGED <<users, passkeys, regs, sessions>>]_vars

\* C20: the user row a finish_registration inserts has the user_id its
\* ceremony state was stored with by start_registration, and the credential
\* the same request inserts is owned by that user_id; a finish that returns
\* success leaves a session of that user as well
C20_CandidateIdBinding ==
    [][\A p \in Procs :
        /\ ( pc[p] = "reg_create_user" /\ pc'[p] = "reg_create_passkey" )
           => \E u \in users' \ users :
                 /\ users' = users \cup {u}
                 /\ u.id = regs[loc[p].h].user_id
                 /\ u.email = loc[p].email
        /\ ( pc[p] = "reg_create_passkey" /\ pc'[p] = "reg_new_session" )
           => \E c \in DOMAIN passkeys' \ DOMAIN passkeys :
                 /\ DOMAIN passkeys' = DOMAIN passkeys \cup {c}
                 /\ passkeys'[c].user_id = regs[loc[p].h].user_id
                 /\ \E u \in users : u.id = passkeys'[c].user_id /\ u.reg = loc[p].h
        /\ ( /\ pc[p] = "reg_new_session" /\ pc'[p] = "done"
             /\ loc'[p].err = "none" )
           => sessions'[loc'[p].new].user_id = regs[loc[p].h].user_id]_vars

\* C20 witness: a finish_registration has returned success; the user its
\* ceremony's candidate id names is stored with a credential
C20_Witness ==
    \E p \in Procs :
        /\ pc[p] = "done" /\ loc[p].op = "finish_registration"
        /\ loc[p].err = "none"
        /\ \E u \in users :
              /\ u.id = regs[loc[p].h].user_id /\ u.reg = loc[p].h
              /\ \E c \in DOMAIN passkeys : passkeys[c].user_id = u.id
        /\ sessions[loc[p].new].user_id = regs[loc[p].h].user_id


\* C21 as stated: a request that presents the bearer of a session whose
\* stored state is already terminal to a protected handler, logout among
\* them, completes without error and writes nothing
C21_TerminalLogoutOk ==
    [][\A p \in Procs :
          ( /\ Arrives(p)
            /\ Named(loc'[p].cookie)
            /\ sessions[FromHex(loc'[p].cookie)].state \in Terminal )
          => /\ loc'[p].err = "none"
             /\ sessions' = sessions]_vars

\* C21: the logout update, when it succeeds, stores LoggedOut in the
\* session and changes nothing else; a logout whose re-read finds the session
\* terminal writes nothing and ends without error; a
\* request that presents the bearer of an already terminal session is
\* rejected with SessionExpired before any handler runs and writes nothing;
\* so no logout step changes a session that is stored as LoggedOut
C21_LogoutIdempotent ==
    [][\A p \in Procs :
          LET h == loc[p].session.id_hash IN
          /\ ( pc[p] = "logout_update" /\ pc'[p] = "done"
               /\ loc'[p].err = "none" )
             => sessions' = [sessions EXCEPT ![h].state = "LoggedOut"]
          /\ ( pc[p] = "logout_get" /\ pc'[p] # pc[p]
               /\ sessions[h].state \in Terminal )
             => /\ sessions' = sessions
                /\ pc'[p] = "done"
                /\ loc'[p].err = "none"
          /\ ( /\ Arrives(p)
               /\ Named(loc'[p].cookie)
               /\ sessions[FromHex(loc'[p].cookie)].state \in Terminal )
             => /\ loc'[p].err = "SessionExpired"
                /\ sessions' = sessions
          /\ ( /\ pc[p] \in {"logout_get", "logout_update"}
               /\ pc'[p] # pc[p]
               /\ sessions[h].state = "LoggedOut" )
             => sessions' = sessions]_vars

\* a logout has ended without error after its re-read found the session
\* already logged out by the logout in the other slot
C21_Witness ==
    \E p, q \in Procs :
        /\ p # q
        /\ pc[p] = "done" /\ loc[p].op = "logout" /\ loc[p].err = "none"
        /\ loc[p].session.state = "LoggedOut"
        /\ loc[q].op = "logout" /\ loc[q].err = "none"
        /\ loc[q].session.id_hash = loc[p].session.id_hash
        /\ loc[q].session.state = "Active"
        /\ pc[q] = "done"

\* C22: the step in which a request arrives and is validated, accepted or
\* rejected, changes nothing in the store; and a request that presents a
\* session stored as Active whose expires_at lies before the clock is rejected
\* with SessionExpired while the stored state stays Active
C22_ExpiryNotWrittenBack ==
    [][\A p \in Procs :
          Arrives(p)
          => /\ UNCHANGED <<users, tags, passkeys, regs, auths, sessions>>
             /\ ( /\ Named(loc'[p].cookie)
                  /\ sessions[FromHex(loc'[p].cookie)].state = "Active"
                  /\ sessions[FromHex(loc'[p].cookie)].expires_at < now )
                => /\ loc'[p].err = "SessionExpired"
                   /\ sessions'[FromHex(loc'[p].cookie)].state = "Active"]_vars

\* a request was rejected with SessionExpired for a session that is past its
\* expiry and is still stored as Active
C22_Witness ==
    \E p \in Procs :
        /\ pc[p] = "done" /\ loc[p].op = "rejected"
        /\ loc[p].err = "SessionExpired"
        /\ Named(loc[p].cookie)
        /\ sessions[FromHex(loc[p].cookie)].state = "Active"
        /\ sessions[FromHex(loc[p].cookie)].expires_at < now

\* C23: the answer of the authenticated-session check and of the
\* admin-session check to a request is the answer they give to the same
\* session bearer with any other admin marker, and the admin-session check
\* accepts exactly when the bearer names a stored session that validates and
\* whose stored is_admin is set
C23_MarkerNotTrusted ==
    [][\A p \in Procs :
          ( Arrives(p) /\ loc'[p].op = "admin" )
          => LET c == loc'[p].cookie
                 ok == /\ Named(c)
                       /\ Validates(sessions, now, FromHex(c))
                       /\ sessions[FromHex(c)].is_admin
             IN /\ \A m \in Markers :
                      LET jar == [session_id |-> c, session_is_admin |-> m] IN
                      /\ AdminSession(jar).err = loc'[p].err
                      /\ AdminSession(jar).session = loc'[p].session
                      /\ AuthenticatedSession(jar) = Validate(c)
                /\ loc'[p].err = "none" <=> ok
                /\ ( Validate(c).err = "none" /\ ~ok )
                   => loc'[p].err = "NotAdmin"]_vars

\* a request that carries the marker "y" beside the bearer of a valid session
\* that is not elevated was refused as NotAdmin, and one that carries no
\* marker beside the bearer of an elevated session can be admitted
C23_Witness ==
    /\ pc[1] = "done" /\ loc[1].op = "admin" /\ loc[1].marker = "y"
    /\ loc[1].err = "NotAdmin"
    /\ Validate(loc[1].cookie).err = "none"
    /\ \E c \in Cookies :
          AdminSession([session_id |-> c, session_is_admin |-> "absent"]).err
              = "none"

C27_Reaper ==
    /\ \A h \in 1..MaxRegs :
          ( h \in DOMAIN regs /\ ~regs[h].reaped /\ Expired(regs[h]) )
          ~> ( h \in DOMAIN regs /\ regs[h].reaped )
    /\ \A h \in 1..MaxAuths :
          ( h \in DOMAIN auths /\ ~auths[h].reaped /\ Expired(auths[h]) )
          ~> ( h \in DOMAIN auths /\ auths[h].reaped )
    /\ [][/\ \A h \in DOMAIN regs :
               ( regs'[h].reaped /\ ~regs[h].reaped ) => Expired(regs[h])
          /\ \A h \in DOMAIN auths :
               ( auths'[h].reaped /\ ~auths[h].reaped ) => Expired(auths[h])
          /\ \A p \in Procs :
               ( Arrives(p) /\ loc'[p].op \in FinishOps )
               => LET rows == IF loc'[p].op = "finish_registration"
                              THEN regs ELSE auths
                      h == loc'[p].h
                  IN ( h \in DOMAIN rows
                       /\ ( rows[h].reaped \/ Expired(rows[h]) ) )
                     => /\ pc'[p] = "done"
                        /\ loc'[p].err # "none"]_vars

C30_SingleTransition ==
    [][\A h \in DOMAIN sessions :
          sessions[h].state \in Terminal
          => sessions'[h].state = sessions[h].state]_vars

RegistrationFails(p) ==
    /\ pc[p] # "done"
    /\ pc'[p] = "done"
    /\ loc'[p].op = "finish_registration"
    /\ loc'[p].err # "none"

\* a compensating delete of the call fails in this step
DeleteFails(p) == pc[p] = "reg_delete_user" /\ users' = users

\* the user row and the credential rows that carry the call's user id
OwnUsers(us, p) == {u \in us : u.id = loc[p].user_id}
OwnPasskeys(ps, p) == {c \in DOMAIN ps : ps[c].user_id = loc[p].user_id}

\* C32 as stated: a finish_registration that created its user and returns
\* an error, with no compensating delete failed, leaves no user row and no
\* credential row of that user, also when the failing step is the session mint
C32_NothingLeftBehind ==
    [][\A p \in Procs :
          ( /\ RegistrationFails(p)
            /\ ~DeleteFails(p)
            /\ pc[p] \in {"reg_delete_user", "reg_new_session"} )
          => /\ OwnUsers(users', p) = {}
             /\ OwnPasskeys(passkeys', p) = {}]_vars

\* C32 amended: a finish_registration that returns an error before it wrote
\* anything leaves the users and the credentials as they were; one whose
\* create_passkey failed and whose delete did not fail leaves neither its
\* user row nor a credential of that user; one whose session mint failed
\* leaves both its user row and its credential row, and deletes nothing
C32_FailedRegistration ==
    [][\A p \in Procs :
          ( RegistrationFails(p) /\ ~DeleteFails(p) )
          => CASE pc[p] = "reg_new_session" ->
                    /\ users' = users /\ passkeys' = passkeys
                    /\ \E u \in OwnUsers(users', p) : u.reg = loc[p].h
                    /\ OwnPasskeys(passkeys', p) # {}
               [] pc[p] = "reg_delete_user" ->
                    /\ OwnUsers(users', p) = {}
                    /\ OwnPasskeys(passkeys', p) = {}
                    /\ passkeys' = passkeys
               [] OTHER ->
                    /\ pc[p] \in {"idle", "reg_create_user"}
                    /\ users' = users /\ passkeys' = passkeys]_vars

\* C32 witness: a finish_registration has returned the error of its session
\* mint, and the user and the credential it created are stored
C32_Witness ==
    \E p \in Procs :
        /\ pc[p] = "done"
        /\ loc[p].op = "finish_registration"
        /\ loc[p].err = "InternalServerError"
        /\ loc[p].cause = "create_session"
        /\ \E u \in OwnUsers(users, p) : u.reg = loc[p].h
        /\ OwnPasskeys(passkeys, p) # {}

\* an upgrade_session or downgrade_session call returns an error in this step
ElevateFails(p) ==
    /\ pc[p] # "done"
    /\ pc'[p] = "done"
    /\ loc'[p].op \in {"upgrade", "downgrade"}
    /\ loc'[p].err # "none"

Holding == {"reg_create_passkey", "reg_delete_user"}

\* C34: the row a compensating delete removes is the row the same call
\* inserted: a call comes to its create_passkey, and from there to its
\* delete, only by inserting a user row for an id no row had; until the call
\* moves on no other step touches that row; the delete removes no other row;
\* and no step but a compensating delete removes a user row
C34_CompensationOwnUser ==
    [][/\ \A p \in Procs :
            /\ ( pc'[p] \in Holding /\ pc[p] \notin Holding )
               => /\ pc[p] = "reg_create_user"
                  /\ pc'[p] = "reg_create_passkey"
                  /\ OwnUsers(users, p) = {}
                  /\ users' = users \cup {[id |-> loc[p].user_id,
                                            email |-> loc[p].email,
                                            reg |-> loc[p].h]}
            /\ ( pc'[p] = "reg_delete_user" /\ pc[p] # "reg_delete_user" )
               => pc[p] = "reg_create_passkey"
            /\ ( pc[p] \in Holding /\ pc'[p] = pc[p] )
               => /\ OwnUsers(users', p) = OwnUsers(users, p)
                  /\ Cardinality(OwnUsers(users, p)) = 1
            /\ ( pc[p] = "reg_delete_user" /\ pc'[p] # "reg_delete_user" )
               => /\ (users \ users') \subseteq OwnUsers(users, p)
                  /\ users' \subseteq users
       /\ ( users \ users' # {} )
          => \E p \in Procs : pc[p] = "reg_delete_user" /\ pc'[p] = "done"]_vars

\* C34 witness: a concurrent finish on the same handle has failed on
\* create_user's uniqueness while the call that inserted the user row has
\* ended with its compensating delete, and the rows of the users registered
\* before are all stored
C34_Witness ==
    \E p, q \in Procs :
        /\ p # q
        /\ loc[p].op = "finish_registration" /\ loc[q].op = "finish_registration"
        /\ loc[p].h = loc[q].h
        /\ pc[q] = "done"
        /\ loc[q].cause = "create_user.UniquenessViolation"
        /\ pc[p] = "done"
        /\ loc[p].cause = "create_passkey"
        /\ OwnUsers(users, p) = {}
        /\ {u.id : u \in users} = {1, 2}

\* C35: when finish_registration returns success, the user row it inserted
\* carries the email its ceremony state was stored with by start_registration
C35_RegisteredEmail ==
    [][\A p \in Procs :
          ( /\ pc[p] = "reg_new_session"
            /\ pc'[p] = "done"
            /\ loc'[p].err = "none" )
          => /\ OwnUsers(users', p) # {}
             /\ \A u \in OwnUsers(users', p) :
                    u.email = regs[loc[p].h].email]_vars

FinishMints(p) ==
    /\ pc[p] \in {"reg_new_session", "new_session"}
    /\ loc[p].op \in FinishOps
    /\ pc'[p] = "done"
    /\ loc'[p].err = "none"

====
